---- MODULE Spec2Model ----
(***************************************************************************)
(* Model of the pipeline core of python_ai_service: the multi-image tag    *)
(* consensus (multi_image.py, normalize.py), the structured-output parser  *)
(* and the retrying, deadline-bounded copy generation                      *)
(* (llm_openvino_genai.py) and the orchestrator's error downgrade          *)
(* (orchestrator.py).                                                      *)
(*                                                                         *)
(* Text is a sequence of one-character strings.  A Python Optional is a    *)
(* sequence of length 0 (None) or 1 (the value).  Scores are integers;     *)
(* a mean is kept as the pair <<sum, count>> and compared exactly.         *)
(***************************************************************************)
EXTENDS Integers, Sequences, FiniteSets, TLC

VARIABLES
    \* ---- tag consensus (multi_image.py) ----
    tags_per_image,   \* list of per-image tag lists handed to merge_tags_for_images
    max_tags,         \* the max_tags argument
    merged,           \* Optional TagMergeResult: <<>> before the call, <<result>> after
    t_normalized, \* Optional: the local normalized-per-image lists of merge_tags_for_images
    \* ---- _validate_copy_output ----
    v_title,          \* Optional text: the value of parsed.get("title")
    v_description,    \* Optional text: the value of parsed.get("description")
    v_result,         \* "" before the call, then "ok" or the ValueError message
    \* ---- parse_llm_json / parse_llm_output on one raw text ----
    raw_text,         \* the raw model output handed to the parser
    embedded,         \* Optional <<title, description>>: the object embedded in raw_text
    fenced,           \* Optional <<title, description>>: the object inside a ```json fence
    pj_result,        \* Optional result of parse_llm_json
    po_result,        \* Optional result of parse_llm_output
    po_debug,         \* the debug argument parse_llm_output was called with
    \* ---- LlmCopywriter.generate ----
    g_pc,             \* position of the caller inside generate()
    g_retry,          \* the retry argument of the running _generate_with_retry
    g_prompt,         \* the prompt argument of the running _generate_with_retry
    g_allow,          \* allow_debug_failure
    g_timeout,        \* settings.LLM_TIMEOUT_SECONDS
    g_debug,          \* Optional LlmDebug record
    g_worker,         \* the executor's worker thread: none, running, done, failed
    g_result,         \* the text the last finished pipeline.generate call returned
    g_calls,          \* the prompts of the pipeline.generate calls started so far
    g_parsed,         \* the raw texts handed to parse_llm_output so far
    g_outcome,        \* Optional outcome of generate(): a return or a raise
    g_outputs,        \* how the model behaves on the first and on the second call
    \* ---- run_pipeline ----
    p_pc,             \* stage of run_pipeline
    p_settings,       \* ENABLE_CPU_FALLBACK, DEBUG, DEBUG_AI, DEBUG_AI_RESPONSE
    p_payload_debug,  \* payload.debug
    p_debug_info,     \* Optional AnalyzeDebug
    p_images,         \* len(images): the number of loaded images
    p_max_tags,       \* payload.max_tags or settings.MAX_TAGS
    p_tags_per_image, \* tags_per_image of run_pipeline
    p_merged,         \* Optional TagMergeResult
    p_captions,       \* captions: the list captioner.generate returned
    p_llm_call,       \* Optional tags and captions handed to llm.generate
    p_trace,          \* the steps of the try block entered so far, in order
    p_outcome,        \* Optional outcome of run_pipeline: a response or a raise
    \* ---- Captioner.generate ----
    c_pc,             \* position inside Captioner.generate / _generate_caption
    c_args,           \* the images, max_captions and the tokenizer's attributes
    c_index,          \* index of the image of the outer loop
    c_round,          \* iteration of the inner loop over range(max(1, max_captions))
    c_decoder,        \* what the text decoder's argmax yields, step by step
    c_input_ids,      \* input_ids[0] of the running _generate_caption
    c_decoder_calls,  \* text-decoder invocations of the running _generate_caption
    c_decode_inputs,  \* Optional inputs of the latest text-decoder invocation
    c_captions,       \* the captions list
    c_outcome,        \* Optional outcome of Captioner.generate
    \* ---- resolve_device ----
    d_device,         \* the device argument
    d_available,      \* core.available_devices
    d_result,         \* Optional outcome of resolve_device
    \* ---- normalize_tag_value, normalize_tags ----
    n_tags,           \* the list of strings handed to normalize_tags
    n_value,          \* Optional text handed to normalize_tag_value
    n_value_runs,     \* normalize_tag_value of n_value, then of that result
    n_tags_runs,      \* normalize_tags of n_tags, then of that result
    \* ---- captions_per_image and the caption texts of run_pipeline ----
    cp_captions,      \* the caption list
    cp_image_count,   \* image_count, len(images) in run_pipeline
    cp_results,       \* Optional result of captions_per_image(captions, image_count)
    cp_reordered,     \* the caption list in another order
    cp_results_reordered, \* Optional result of captions_per_image on cp_reordered
    cp_texts,         \* Optional caption_texts of run_pipeline
    \* ---- build_tag_sets next to merge_tags_for_images ----
    ts_tags_per_image,   \* the per-image tag lists handed to both functions
    ts_min_shared_ratio, \* min_shared_ratio as <<numerator, denominator>>
    ts_max_soft_tags,    \* max_soft_tags
    ts_result,           \* Optional TagSetResult of build_tag_sets
    ts_merged,           \* Optional TagMergeResult of merge_tags_for_images
    \* ---- model_manager.py: ensure_models, called concurrently ----
    mm_args,             \* per call: mode and offline
    mm_assets,           \* per model: what its target directory holds
    mm_lock,             \* the call holding the file lock of the model directory
    mm_pc,               \* per call: position inside ensure_models
    mm_spec,             \* per call: index of the spec of the loop
    mm_missing,          \* per call: status.missing of its latest check_assets
    mm_events,           \* lock acquisitions, removals and conversions, in order
    mm_outcome,          \* per call: Optional outcome
    mm_manifest          \* manifest.json has been written

tagVars == <<tags_per_image, max_tags, merged, t_normalized>>
valVars == <<v_title, v_description, v_result>>
parseVars == <<raw_text, embedded, fenced, pj_result, po_result, po_debug>>
genVars == <<g_pc, g_retry, g_prompt, g_allow, g_timeout, g_debug, g_worker,
             g_result, g_calls, g_parsed, g_outcome, g_outputs>>
pipeDataVars == <<p_images, p_max_tags, p_tags_per_image, p_merged, p_captions, p_llm_call>>
pipeVars == <<p_pc, p_settings, p_payload_debug, p_debug_info, p_outcome,
              pipeDataVars, p_trace>>
capVars == <<c_pc, c_args, c_index, c_round, c_decoder, c_input_ids,
             c_decoder_calls, c_decode_inputs, c_captions, c_outcome>>
devVars == <<d_device, d_available, d_result>>
normVars == <<n_tags, n_value, n_value_runs, n_tags_runs>>
cpVars == <<cp_captions, cp_image_count, cp_results, cp_reordered,
            cp_results_reordered, cp_texts>>
tsVars == <<ts_tags_per_image, ts_min_shared_ratio, ts_max_soft_tags, ts_result, ts_merged>>
mmVars == <<mm_args, mm_assets, mm_lock, mm_pc, mm_spec, mm_missing, mm_events,
            mm_outcome, mm_manifest>>
lateVars == <<tsVars, mmVars>>
libVars == <<capVars, devVars, normVars, cpVars, lateVars>>
vars == <<tagVars, valVars, parseVars, genVars, pipeVars, libVars>>

(***************************************************************************)
(* Python built-ins on text and lists                                      *)
(***************************************************************************)
None == <<>>
Some(x) == <<x>>

Min(a, b) == IF a <= b THEN a ELSE b
Max(a, b) == IF a >= b THEN a ELSE b

\* A plausible slip: the slice taken up to and including position n.
MutSliceToInclusive(s, n) == SubSeq(s, 1, Min(n + 1, Len(s)))

\* s[:n]
SliceTo(s, n) ==
    IF n >= 0 THEN SubSeq(s, 1, Min(n, Len(s)))
    ELSE SubSeq(s, 1, Max(Len(s) + n, 0))

\* str.isspace() of one character, over the characters of the model
IsSpace(c) == c \in {" ", "\t", "\n", "\r"}

\* the lower-case and the upper-case letter of each ASCII letter
LOWER_OF ==
    [A |-> "a", B |-> "b", C |-> "c", D |-> "d", E |-> "e", F |-> "f", G |-> "g",
     H |-> "h", I |-> "i", J |-> "j", K |-> "k", L |-> "l", M |-> "m", N |-> "n",
     O |-> "o", P |-> "p", Q |-> "q", R |-> "r", S |-> "s", T |-> "t", U |-> "u",
     V |-> "v", W |-> "w", X |-> "x", Y |-> "y", Z |-> "z"]
UPPER_OF ==
    [a |-> "A", b |-> "B", c |-> "C", d |-> "D", e |-> "E", f |-> "F", g |-> "G",
     h |-> "H", i |-> "I", j |-> "J", k |-> "K", l |-> "L", m |-> "M", n |-> "N",
     o |-> "O", p |-> "P", q |-> "Q", r |-> "R", s |-> "S", t |-> "T", u |-> "U",
     v |-> "V", w |-> "W", x |-> "X", y |-> "Y", z |-> "Z"]

LowerChar(c) == IF c \in DOMAIN LOWER_OF THEN LOWER_OF[c] ELSE c
UpperChar(c) == IF c \in DOMAIN UPPER_OF THEN UPPER_OF[c] ELSE c

\* str.lower()
Lower(s) == [i \in 1..Len(s) |-> LowerChar(s[i])]

\* str.upper()
Upper(s) == [i \in 1..Len(s) |-> UpperChar(s[i])]

\* sub in s
Contains(s, sub) ==
    \E i \in 1..(Len(s) - Len(sub) + 1) : SubSeq(s, i, i + Len(sub) - 1) = sub

\* s.startswith(prefix)
StartsWith(s, prefix) == Len(s) >= Len(prefix) /\ SubSeq(s, 1, Len(prefix)) = prefix

\* str.strip()
Strip(s) ==
    LET keep == {i \in 1..Len(s) : ~IsSpace(s[i])}
    IN  IF keep = {} THEN <<>>
        ELSE LET lo == CHOOSE i \in keep : \A j \in keep : i <= j
                 hi == CHOOSE i \in keep : \A j \in keep : i >= j
             IN  SubSeq(s, lo, hi)

\* str.split() without argument: the maximal runs of non-whitespace
RECURSIVE SplitLoop(_, _, _, _)
SplitLoop(s, i, cur, words) ==
    IF i > Len(s) THEN (IF cur = <<>> THEN words ELSE Append(words, cur))
    ELSE IF IsSpace(s[i])
         THEN SplitLoop(s, i + 1, <<>>, IF cur = <<>> THEN words ELSE Append(words, cur))
         ELSE SplitLoop(s, i + 1, Append(cur, s[i]), words)

Split(s) == SplitLoop(s, 1, <<>>, <<>>)

\* " ".join(words)
RECURSIVE JoinSpace(_)
JoinSpace(words) ==
    IF words = <<>> THEN <<>>
    ELSE IF Len(words) = 1 THEN words[1]
    ELSE words[1] \o <<" ">> \o JoinSpace(Tail(words))

Range(s) == {s[i] : i \in 1..Len(s)}

\* c * n
Repeat(c, n) == [i \in 1..n |-> c]

(***************************************************************************)
(* normalize.py, multi_image.py                                            *)
(***************************************************************************)
\* A plausible slip: one whitespace character trimmed from each end instead
\* of all of them, and the inner whitespace left as it is.
MutNormalizeTrimsOne(value) ==
    LET lo == IF value # <<>> /\ IsSpace(value[1]) THEN 2 ELSE 1
        hi == IF Len(value) >= lo /\ IsSpace(value[Len(value)])
              THEN Len(value) - 1 ELSE Len(value)
    IN  Lower(SubSeq(value, lo, hi))

normalize_tag_value(value) == JoinSpace(Split(Lower(Strip(value))))

\* A plausible slip: the membership test on seen left out.
RECURSIVE MutNormalizeTagsKeepsDuplicates(_, _, _)
MutNormalizeTagsKeepsDuplicates(tags, i, normalized) ==
    IF i > Len(tags) THEN normalized
    ELSE LET value == JoinSpace(Split(Lower(Strip(tags[i]))))
         IN  IF value = <<>>
             THEN MutNormalizeTagsKeepsDuplicates(tags, i + 1, normalized)
             ELSE MutNormalizeTagsKeepsDuplicates(tags, i + 1, Append(normalized, value))

RECURSIVE normalize_tags_loop(_, _, _)
normalize_tags_loop(tags, i, normalized) ==
    IF i > Len(tags) THEN normalized
    ELSE LET value == JoinSpace(Split(Lower(Strip(tags[i]))))
         IN  IF value = <<>> \/ value \in Range(normalized)
             THEN normalize_tags_loop(tags, i + 1, normalized)
             ELSE normalize_tags_loop(tags, i + 1, Append(normalized, value))

normalize_tags(tags) == normalize_tags_loop(tags, 1, <<>>)

\* tag.score or 0.0
ScoreOrZero(score) == IF score = None THEN 0 ELSE score[1]

Tag(value, score, source) == [value |-> value, score |-> score, source |-> source]

\* A plausible slip: the first tag of a value kept, whatever the later scores.
RECURSIVE MutScoredTagsKeepFirst(_, _, _, _)
MutScoredTagsKeepFirst(tags, i, deduped, order) ==
    IF i > Len(tags) THEN deduped
    ELSE
      LET tag == tags[i]
          normalized_value == normalize_tag_value(tag.value)
      IN  IF normalized_value = <<>> \/ normalized_value \in Range(order)
          THEN MutScoredTagsKeepFirst(tags, i + 1, deduped, order)
          ELSE MutScoredTagsKeepFirst(tags, i + 1,
                   Append(deduped, Tag(normalized_value, tag.score, tag.source)),
                   Append(order, normalized_value))

\* The loop of normalize_scored_tags; deduped is kept as the list of the tags
\* of the dict, indexed like order.
RECURSIVE normalize_scored_tags_loop(_, _, _, _)
normalize_scored_tags_loop(tags, i, deduped, order) ==
    IF i > Len(tags) THEN deduped
    ELSE
      LET tag == tags[i]
          normalized_value == normalize_tag_value(tag.value)
      IN  IF normalized_value = <<>>
          THEN normalize_scored_tags_loop(tags, i + 1, deduped, order)
          ELSE IF normalized_value \notin Range(order)
          THEN normalize_scored_tags_loop(tags, i + 1,
                   Append(deduped, Tag(normalized_value, tag.score, tag.source)),
                   Append(order, normalized_value))
          ELSE
            LET k == CHOOSE j \in 1..Len(order) : order[j] = normalized_value
                existing_score == ScoreOrZero(deduped[k].score)
                incoming_score == ScoreOrZero(tag.score)
            IN  IF incoming_score > existing_score
                THEN normalize_scored_tags_loop(tags, i + 1,
                         [deduped EXCEPT ![k] = Tag(normalized_value, tag.score, tag.source)],
                         order)
                ELSE normalize_scored_tags_loop(tags, i + 1, deduped, order)

normalize_scored_tags(tags) == normalize_scored_tags_loop(tags, 1, <<>>, <<>>)

RECURSIVE SumSeq(_)
SumSeq(s) == IF s = <<>> THEN 0 ELSE s[1] + SumSeq(Tail(s))

\* The mean as <<sum, count>>; <<0, 1>> is the 0.0 of a list without scores.
_average_tag_score(tags) ==
    LET scored == SelectSeq(tags, LAMBDA t : t.score # None)
        scores == [i \in 1..Len(scored) |-> scored[i].score[1]]
    IN  IF scores = <<>> THEN <<0, 1>> ELSE <<SumSeq(scores), Len(scores)>>

\* a > b for two means
MeanGreater(a, b) == a[1] * b[2] > b[1] * a[2]

\* max(range(len(avg_scores)), key=...): the first index of a greatest mean
ArgMaxFirst(avg_scores) ==
    CHOOSE i \in 1..Len(avg_scores) :
        /\ \A j \in 1..Len(avg_scores) : ~MeanGreater(avg_scores[j], avg_scores[i])
        /\ \A j \in 1..(i - 1) : MeanGreater(avg_scores[i], avg_scores[j])

\* A plausible slip: the intersection listed from the set, losing the first
\* image's order (here: reversed).
MutIntersectionUnordered(values_per_image) ==
    LET intersection_set ==
            {v \in Range(values_per_image[1]) :
                \A k \in 2..Len(values_per_image) : v \in Range(values_per_image[k])}
        kept == SelectSeq(values_per_image[1], LAMBDA v : v \in intersection_set)
    IN  [i \in 1..Len(kept) |-> kept[Len(kept) + 1 - i]]

\* The set intersection of the value lists, in the order of the first list.
IntersectionOrdered(values_per_image) ==
    LET intersection_set ==
            {v \in Range(values_per_image[1]) :
                \A k \in 2..Len(values_per_image) : v \in Range(values_per_image[k])}
    IN  SelectSeq(values_per_image[1], LAMBDA v : v \in intersection_set)

\* score_map of merge_tags_for_images: starts from the default 0.0 of
\* score_map.get(value, 0.0) and keeps the greatest score seen.
ScoreMapGet(normalized_per_image, value) ==
    LET seen == UNION {{ScoreOrZero(normalized_per_image[k][j].score) :
                           j \in {j \in 1..Len(normalized_per_image[k]) :
                                    normalized_per_image[k][j].value = value}} :
                       k \in 1..Len(normalized_per_image)}
        cands == {s \in seen : s > 0} \cup {0}
    IN  CHOOSE m \in cands : \A s \in cands : m >= s

\* A plausible slip: the index of the image named without the + 1.
MutFallbackZeroBased(k) == <<"highest_avg_score_image_", k - 1>>

\* f"highest_avg_score_image_{selected_index + 1}", k being the 1-based index
Fallback(k) == <<"highest_avg_score_image_", k>>

merge_tags_for_images(tpi, mt) ==
    IF tpi = <<>>
    THEN [tags_for_llm |-> <<>>, merged_tags |-> <<>>, intersection |-> <<>>,
          strategy |-> "intersection_all", fallback |-> None]
    ELSE
      LET normalized_per_image == [k \in 1..Len(tpi) |-> normalize_scored_tags(tpi[k])]
          values_per_image ==
              [k \in 1..Len(tpi) |->
                  [j \in 1..Len(normalized_per_image[k]) |-> normalized_per_image[k][j].value]]
          intersection_ordered == IntersectionOrdered(values_per_image)
      IN  IF intersection_ordered # <<>>
          THEN
            LET merged_tags ==
                    [j \in 1..Len(intersection_ordered) |->
                        Tag(intersection_ordered[j],
                            Some(ScoreMapGet(normalized_per_image, intersection_ordered[j])),
                            "clip")]
            IN  [tags_for_llm |-> SliceTo(normalize_tags(intersection_ordered), mt),
                 merged_tags |-> SliceTo(merged_tags, mt),
                 intersection |-> intersection_ordered,
                 strategy |-> "intersection_all",
                 fallback |-> None]
          ELSE
            LET avg_scores ==
                    [k \in 1..Len(tpi) |-> _average_tag_score(normalized_per_image[k])]
                selected_index == ArgMaxFirst(avg_scores)
                selected == normalized_per_image[selected_index]
            IN  [tags_for_llm |->
                     SliceTo(normalize_tags([j \in 1..Len(selected) |-> selected[j].value]), mt),
                 merged_tags |-> SliceTo(selected, mt),
                 intersection |-> <<>>,
                 strategy |-> "intersection_all",
                 fallback |-> Fallback(selected_index)]

\* ---- multi_image.py: _compute_tag_stats and build_tag_sets ----
\* ord(c) for the characters of normalized tag values
LETTERS ==
    <<"a", "b", "c", "d", "e", "f", "g", "h", "i", "j", "k", "l", "m",
      "n", "o", "p", "q", "r", "s", "t", "u", "v", "w", "x", "y", "z">>
Ord(c) == IF c = " " THEN 32 ELSE 96 + (CHOOSE i \in 1..26 : LETTERS[i] = c)

\* a < b for two strings
RECURSIVE StrLess(_, _, _)
StrLess(a, b, i) ==
    IF i > Len(a) THEN i <= Len(b)
    ELSE IF i > Len(b) THEN FALSE
    ELSE IF a[i] = b[i] THEN StrLess(a, b, i + 1)
    ELSE Ord(a[i]) < Ord(b[i])

\* a quotient x / y as <<x, y>>, y > 0
QuotLess(a, b) == a[1] * b[2] < b[1] * a[2]
QuotEq(a, b) == a[1] * b[2] = b[1] * a[2]

\* the keys of counts in insertion order: the values in the order in which
\* the loops over the images and their tags first meet them
RECURSIVE CountsKeys(_, _, _, _)
CountsKeys(normalized_per_image, k, j, keys) ==
    IF k > Len(normalized_per_image) THEN keys
    ELSE IF j > Len(normalized_per_image[k])
         THEN CountsKeys(normalized_per_image, k + 1, 1, keys)
    ELSE IF normalized_per_image[k][j].value \in Range(keys)
         THEN CountsKeys(normalized_per_image, k, j + 1, keys)
    ELSE CountsKeys(normalized_per_image, k, j + 1,
                    Append(keys, normalized_per_image[k][j].value))

\* the tags of all images that carry the value, in the order of the loops
TagsOfValue(normalized_per_image, value) ==
    LET hits == [k \in 1..Len(normalized_per_image) |->
                    SelectSeq(normalized_per_image[k], LAMBDA t : t.value = value)]
        RECURSIVE Concat(_)
        Concat(k) == IF k > Len(hits) THEN <<>> ELSE hits[k] \o Concat(k + 1)
    IN  Concat(1)

\* max_scores[tag]: a defaultdict(float), raised by `if score > max_scores[...]`
MaxScore(scores) ==
    LET cands == Range(scores) \cup {0}
    IN  CHOOSE m \in cands : \A x \in cands : m >= x

TagStats(tag, count, mean_score, max_score, frequency) ==
    [tag |-> tag, count |-> count, mean_score |-> mean_score,
     max_score |-> max_score, frequency |-> frequency]

StatsOfValue(tag, tags, image_count) ==
    TagStats(tag, Len(tags),
             <<SumSeq([i \in 1..Len(tags) |-> ScoreOrZero(tags[i].score)]), Len(tags)>>,
             MaxScore([i \in 1..Len(tags) |-> ScoreOrZero(tags[i].score)]),
             <<Len(tags), image_count>>)

\* tag_stats as the list of its items, in the insertion order of the dict
StatsOfKeys(normalized_per_image, keys) ==
    [i \in 1..Len(keys) |->
        StatsOfValue(keys[i], TagsOfValue(normalized_per_image, keys[i]),
                     Len(normalized_per_image))]

_compute_tag_stats(normalized_per_image) ==
    IF Len(normalized_per_image) = 0 THEN <<>>
    ELSE StatsOfKeys(normalized_per_image, CountsKeys(normalized_per_image, 1, 1, <<>>))

\* min(max(min_shared_ratio, 0.0), 1.0)
ClampRatio(ratio) ==
    IF QuotLess(ratio, <<0, 1>>) THEN <<0, 1>>
    ELSE IF QuotLess(<<1, 1>>, ratio) THEN <<1, 1>>
    ELSE ratio

\* the key (-frequency, -mean_score, tag) of x is less than that of y
SoftKeyLess(x, y) ==
    IF ~QuotEq(x.frequency, y.frequency) THEN QuotLess(y.frequency, x.frequency)
    ELSE IF ~QuotEq(x.mean_score, y.mean_score) THEN QuotLess(y.mean_score, x.mean_score)
    ELSE StrLess(x.tag, y.tag, 1)

\* sorted(shared_tags, key=...): each item put behind the items whose key is
\* not greater
RECURSIVE SortedByKey(_, _, _)
SortedByKey(items, i, sorted) ==
    IF i > Len(items) THEN sorted
    ELSE LET before == SelectSeq(sorted, LAMBDA y : ~SoftKeyLess(items[i], y))
             after == SelectSeq(sorted, LAMBDA y : SoftKeyLess(items[i], y))
         IN  SortedByKey(items, i + 1, before \o <<items[i]>> \o after)

\* stats.frequency >= min_shared_ratio
IsShared(stats, ratio) == ~QuotLess(stats.frequency, ratio)

\* A plausible slip: the tags the first two images share.
MutStrictOfFirstTwo(values_per_image) ==
    SelectSeq(values_per_image[1],
              LAMBDA v : \A k \in 2..Min(2, Len(values_per_image)) :
                            v \in Range(values_per_image[k]))

\* intersection_set and tags_strict of build_tag_sets
StrictTags(values_per_image) ==
    LET RECURSIVE Meet(_, _)
        Meet(k, intersection_set) ==
            IF k > Len(values_per_image) THEN intersection_set
            ELSE Meet(k + 1, intersection_set \cap Range(values_per_image[k]))
        intersection_set == Meet(2, Range(values_per_image[1]))
    IN  SelectSeq(values_per_image[1], LAMBDA value : value \in intersection_set)

TagSetResult(tags_strict, tags_soft, tag_stats) ==
    [tags_strict |-> tags_strict, tags_soft |-> tags_soft, tag_stats |-> tag_stats]

\* tags_soft = sorted_shared[:max_soft_tags] if max_soft_tags else []
SoftTags(tag_stats, ratio, max_soft_tags) ==
    LET shared == SelectSeq(tag_stats, LAMBDA stats : IsShared(stats, ratio))
        sorted_shared == SortedByKey(shared, 1, <<>>)
    IN  IF max_soft_tags = 0 THEN <<>>
        ELSE [i \in 1..Min(max_soft_tags, Len(sorted_shared)) |-> sorted_shared[i].tag]

build_tag_sets(tags_per_image_arg, min_shared_ratio, max_soft_tags) ==
    IF Len(tags_per_image_arg) = 0 THEN TagSetResult(<<>>, <<>>, <<>>)
    ELSE
      LET normalized == [k \in 1..Len(tags_per_image_arg) |->
                            normalize_scored_tags(tags_per_image_arg[k])]
          values_per_image ==
              [k \in 1..Len(normalized) |->
                  [j \in 1..Len(normalized[k]) |-> normalized[k][j].value]]
          tag_stats == _compute_tag_stats(normalized)
      IN  TagSetResult(
              normalize_tags(StrictTags(values_per_image)),
              normalize_tags(SoftTags(tag_stats, ClampRatio(min_shared_ratio),
                                      Max(0, max_soft_tags))),
              tag_stats)

(***************************************************************************)
(* Tag consensus: the tagger's outputs are built up tag by tag, then       *)
(* merge_tags_for_images is called once.                                   *)
(***************************************************************************)
MaxImages == 2
MaxTotalTags == 3
MaxTagsArg == 2

\* what the tagger may score: a value in two spellings, with and without a
\* score, another value with a negative and a positive score, and a blank
TagChoices ==
    {Tag(<<"a">>, None, "clip"), Tag(<<"a">>, Some(2), "clip"),
     Tag(<<" ", "A">>, Some(-1), "clip"), Tag(<<"b">>, Some(-1), "clip"),
     Tag(<<"b">>, Some(2), "clip"), Tag(<<" ">>, Some(2), "clip")}

TotalTags == SumSeq([k \in 1..Len(tags_per_image) |-> Len(tags_per_image[k])])

\* tags_per_image.append(tagger.predict(...)): a new image, without tags yet
TaggerNewImage ==
    /\ merged = None
    /\ Len(tags_per_image) < MaxImages
    /\ tags_per_image' = Append(tags_per_image, <<>>)
    /\ UNCHANGED <<max_tags, merged, t_normalized>>

\* the tagger scores one more tag for the image it is working on
TaggerAddTag ==
    /\ merged = None
    /\ tags_per_image # <<>>
    /\ TotalTags < MaxTotalTags
    /\ \E tag \in TagChoices :
          tags_per_image' =
              [tags_per_image EXCEPT ![Len(tags_per_image)] = Append(@, tag)]
    /\ UNCHANGED <<max_tags, merged, t_normalized>>

MergeTags ==
    /\ merged = None
    /\ \E mt \in 0..MaxTagsArg :
          /\ max_tags' = mt
          /\ merged' = Some(merge_tags_for_images(tags_per_image, mt))
    /\ t_normalized' =
          Some([k \in 1..Len(tags_per_image) |-> normalize_scored_tags(tags_per_image[k])])
    /\ UNCHANGED tags_per_image

InitTags ==
    /\ tags_per_image = <<>>
    /\ max_tags = 0
    /\ merged = None
    /\ t_normalized = None

InitValIdle == v_title = None /\ v_description = None /\ v_result = ""
InitParseIdle ==
    /\ raw_text = <<>> /\ embedded = None /\ fenced = None
    /\ pj_result = None /\ po_result = None /\ po_debug = None
InitGenIdle ==
    /\ g_pc = "idle" /\ g_retry = TRUE /\ g_prompt = <<>> /\ g_allow = FALSE
    /\ g_timeout = 0 /\ g_debug = None /\ g_worker = "none" /\ g_result = <<>>
    /\ g_calls = <<>> /\ g_parsed = <<>> /\ g_outcome = None /\ g_outputs = <<>>
InitPipeIdle ==
    /\ p_pc = "idle" /\ p_settings = <<>> /\ p_payload_debug = FALSE
    /\ p_debug_info = None /\ p_outcome = None
    /\ p_images = 0 /\ p_max_tags = 0 /\ p_tags_per_image = <<>> /\ p_merged = None
    /\ p_captions = <<>> /\ p_llm_call = None /\ p_trace = <<>>
InitCapIdle ==
    /\ c_pc = "idle" /\ c_args = <<>> /\ c_index = 0 /\ c_round = 0
    /\ c_decoder = <<>> /\ c_input_ids = <<>> /\ c_decoder_calls = 0
    /\ c_decode_inputs = None
    /\ c_captions = <<>> /\ c_outcome = None
InitDevIdle == d_device = <<>> /\ d_available = {} /\ d_result = None
InitNormIdle ==
    n_tags = <<>> /\ n_value = None /\ n_value_runs = <<>> /\ n_tags_runs = <<>>
InitCpIdle ==
    /\ cp_captions = <<>> /\ cp_image_count = 0 /\ cp_results = None
    /\ cp_reordered = <<>> /\ cp_results_reordered = None /\ cp_texts = None
InitTsIdle ==
    /\ ts_tags_per_image = <<>> /\ ts_min_shared_ratio = <<0, 1>> /\ ts_max_soft_tags = 0
    /\ ts_result = None /\ ts_merged = None
InitMmIdle ==
    /\ mm_args = <<>> /\ mm_assets = <<>> /\ mm_lock = 0 /\ mm_pc = <<>>
    /\ mm_spec = <<>> /\ mm_missing = <<>> /\ mm_events = <<>> /\ mm_outcome = <<>>
    /\ mm_manifest = FALSE
InitLateIdle == InitTsIdle /\ InitMmIdle
InitLibIdle == InitCapIdle /\ InitDevIdle /\ InitNormIdle /\ InitCpIdle /\ InitLateIdle

NextTags ==
    \/ TaggerNewImage /\ UNCHANGED <<valVars, parseVars, genVars, pipeVars, libVars>>
    \/ TaggerAddTag /\ UNCHANGED <<valVars, parseVars, genVars, pipeVars, libVars>>
    \/ MergeTags /\ UNCHANGED <<valVars, parseVars, genVars, pipeVars, libVars>>

InitSpecTags ==
    InitTags /\ InitValIdle /\ InitParseIdle /\ InitGenIdle /\ InitPipeIdle /\ InitLibIdle

SpecTags == InitSpecTags /\ [][NextTags]_vars

(***************************************************************************)
(* llm_openvino_genai.py: _validate_copy_output                            *)
(***************************************************************************)
TITLE_MIN_CHARS == 55
TITLE_MAX_CHARS == 90
MIN_SENTENCES == 2
MAX_SENTENCES == 4

\* str.split(sep) for a one-character separator: always at least one segment
RECURSIVE SplitOnLoop(_, _, _, _, _)
SplitOnLoop(s, sep, i, cur, segs) ==
    IF i > Len(s) THEN Append(segs, cur)
    ELSE IF s[i] = sep
         THEN SplitOnLoop(s, sep, i + 1, <<>>, Append(segs, cur))
         ELSE SplitOnLoop(s, sep, i + 1, Append(cur, s[i]), segs)

SplitOn(s, sep) == SplitOnLoop(s, sep, 1, <<>>, <<>>)

\* A plausible slip: every segment counted, blank or not.
MutSentenceCountBlank(description) == Len(SplitOn(description, "."))

\* len([s for s in description.split(".") if s.strip()])
SentenceCount(description) ==
    Len(SelectSeq(SplitOn(description, "."), LAMBDA seg : Strip(seg) # <<>>))

\* A plausible slip: the bounds taken exclusive.
MutTitleLengthExclusive(title) ==
    TITLE_MIN_CHARS < Len(title) /\ Len(title) < TITLE_MAX_CHARS

\* 55 <= len(title) <= 90
TitleLengthOk(title) ==
    TITLE_MIN_CHARS <= Len(title) /\ Len(title) <= TITLE_MAX_CHARS

\* title and description are Optionals: None stands for a value that is no str.
\* The result is "ok" or the message of the ValueError raised.
_validate_copy_output(title, description) ==
    IF title = None \/ description = None
    THEN "Title and description must be strings."
    ELSE IF ~TitleLengthOk(title[1])
    THEN "Title length out of range."
    ELSE IF SentenceCount(description[1]) < MIN_SENTENCES
            \/ SentenceCount(description[1]) > MAX_SENTENCES
    THEN "Description must be 2-4 sentences."
    ELSE IF Strip(description[1]) = <<>>
    THEN "Description must not be empty."
    ELSE "ok"

(***************************************************************************)
(* llm_openvino_genai.py: candidate extraction and JSON decoding           *)
(***************************************************************************)
QUOTE == "\""
BACKSLASH == "\\"

\* One iteration of the loops of _extract_first_json_object on the character
\* at idx.  st holds the locals in_string, escape, start_idx and depth and the
\* index end_idx of the closing brace; start_idx = 0 is the first loop (the
\* search for the opening brace), end_idx # 0 the return.
ScanStep(st, idx, char) ==
    IF st.end_idx # 0 THEN st
    ELSE IF char = BACKSLASH /\ st.in_string
    THEN [st EXCEPT !.escape = ~st.escape]
    ELSE
      LET in_string2 == IF char = QUOTE /\ ~st.escape THEN ~st.in_string ELSE st.in_string
          st2 == [st EXCEPT !.in_string = in_string2, !.escape = FALSE]
      IN  IF in_string2 THEN st2
          ELSE IF st.start_idx = 0
          THEN (IF char = "{" THEN [st2 EXCEPT !.start_idx = idx, !.depth = 1] ELSE st2)
          ELSE IF char = "{" THEN [st2 EXCEPT !.depth = st.depth + 1]
          ELSE IF char = "}"
          THEN (IF st.depth - 1 = 0
                THEN [st2 EXCEPT !.depth = 0, !.end_idx = idx]
                ELSE [st2 EXCEPT !.depth = st.depth - 1])
          ELSE st2

\* the iterations over text[lo..hi], left to right, from the locals st
RECURSIVE ScanRange(_, _, _, _)
ScanRange(text, lo, hi, st) ==
    IF lo > hi \/ st.end_idx # 0 THEN st
    ELSE IF lo = hi THEN ScanStep(st, lo, text[lo])
    ELSE LET mid == (lo + hi) \div 2
         IN  ScanRange(text, mid + 1, hi, ScanRange(text, lo, mid, st))

\* Optional text: the candidate, None when no region is found
_extract_first_json_object(text) ==
    LET st == ScanRange(text, 1, Len(text),
                  [in_string |-> FALSE, escape |-> FALSE, start_idx |-> 0,
                   depth |-> 0, end_idx |-> 0])
    IN  IF st.start_idx = 0 \/ st.end_idx = 0 THEN None
        ELSE Some(SubSeq(text, st.start_idx, st.end_idx))

\* json.loads on texts over an alphabet without digits, "[", "u" and the letters
\* of the literals: a value is a string or an object.  A decoded value is
\* [t |-> "str", s |-> text] or [t |-> "obj", s |-> <<>>].
Fail == [ok |-> FALSE, pos |-> 0, val |-> <<>>]

\* the first index from i on that holds no whitespace
RECURSIVE SkipWs(_, _)
SkipWs(text, i) ==
    IF i <= Len(text) /\ IsSpace(text[i]) THEN SkipWs(text, i + 1) ELSE i

\* the character an escape sequence stands for, "" for an invalid escape
Unescape(c) ==
    CASE c = QUOTE -> QUOTE
      [] c = BACKSLASH -> BACKSLASH
      [] c = "/" -> "/"
      [] c = "b" -> "\\b"
      [] c = "f" -> "\f"
      [] c = "n" -> "\n"
      [] c = "r" -> "\r"
      [] c = "t" -> "\t"
      [] OTHER -> ""

\* One iteration of scanstring on the character at idx.  st holds the decoded
\* text so far (val), whether the previous character was an unescaped backslash
\* (escape), the index after the closing quote (pos, 0 while none is met) and
\* whether every escape sequence was valid (ok).
StringStep(st, idx, char) ==
    IF st.pos # 0 \/ ~st.ok THEN st
    ELSE IF st.escape
    THEN (IF Unescape(char) = "" THEN [st EXCEPT !.ok = FALSE]
          ELSE [st EXCEPT !.escape = FALSE, !.val = Append(st.val, Unescape(char))])
    ELSE IF char = BACKSLASH THEN [st EXCEPT !.escape = TRUE]
    ELSE IF char = QUOTE THEN [st EXCEPT !.pos = idx + 1]
    ELSE [st EXCEPT !.val = Append(st.val, char)]

RECURSIVE StringRange(_, _, _, _)
StringRange(text, lo, hi, st) ==
    IF lo > hi \/ st.pos # 0 \/ ~st.ok THEN st
    ELSE IF lo = hi THEN StringStep(st, lo, text[lo])
    ELSE LET mid == (lo + hi) \div 2
         IN  StringRange(text, mid + 1, hi, StringRange(text, lo, mid, st))

\* scanstring: i is the index after the opening quote
ScanString(text, i) ==
    LET st == StringRange(text, i, Len(text),
                  [ok |-> TRUE, escape |-> FALSE, pos |-> 0, val |-> <<>>])
    IN  IF st.ok /\ st.pos # 0 THEN [ok |-> TRUE, pos |-> st.pos, val |-> st.val]
        ELSE Fail

RECURSIVE ParseMembers(_, _, _)
RECURSIVE ParseValue(_, _)
RECURSIVE MemberColon(_, _, _)
RECURSIVE MemberValue(_, _, _, _)
RECURSIVE MemberEnd(_, _, _)

\* JSONObject: i is the index of the first character that is no whitespace after
\* the "{"; val is the list of <<key, value>>
ParseObject(text, i) ==
    IF i > Len(text) THEN Fail
    ELSE IF text[i] = "}" THEN [ok |-> TRUE, pos |-> i + 1, val |-> <<>>]
    ELSE ParseMembers(text, i, <<>>)

\* JSONObject, the loop over the members: a key at j, ...
ParseMembers(text, j, pairs) ==
    IF j > Len(text) \/ text[j] # QUOTE THEN Fail
    ELSE MemberColon(text, ScanString(text, j + 1), pairs)

\* ... the colon after the key, ...
MemberColon(text, key, pairs) ==
    IF ~key.ok THEN Fail
    ELSE IF SkipWs(text, key.pos) > Len(text) \/ text[SkipWs(text, key.pos)] # ":" THEN Fail
    ELSE MemberValue(text, key.val,
                     ParseValue(text, SkipWs(text, SkipWs(text, key.pos) + 1)), pairs)

\* ... the value, ...
MemberValue(text, key, value, pairs) ==
    IF ~value.ok THEN Fail
    ELSE MemberEnd(text, SkipWs(text, value.pos), Append(pairs, <<key, value.val>>))

\* ... and the "}" that ends the object or the "," before the next key
MemberEnd(text, m, pairs) ==
    IF m > Len(text) THEN Fail
    ELSE IF text[m] = "}" THEN [ok |-> TRUE, pos |-> m + 1, val |-> pairs]
    ELSE IF text[m] = "," THEN ParseMembers(text, SkipWs(text, m + 1), pairs)
    ELSE Fail

\* the decoded value as a value of kind t
AsValue(res, t) ==
    IF res.ok THEN [res EXCEPT !.val = [t |-> t, s |-> IF t = "str" THEN res.val ELSE <<>>]]
    ELSE Fail

ParseValue(text, i) ==
    IF i > Len(text) THEN Fail
    ELSE IF text[i] = QUOTE THEN AsValue(ScanString(text, i + 1), "str")
    ELSE IF text[i] = "{" THEN AsValue(ParseObject(text, SkipWs(text, i + 1)), "obj")
    ELSE Fail

\* the end of json.loads: res is the decoded value, nothing but whitespace may
\* follow it, and a value that is no object is refused by _parse_json_strict
DecodeEnd(text, res, is_object) ==
    IF ~(res.ok /\ SkipWs(text, res.pos) > Len(text))
    THEN [parsed |-> None, parse_error |-> Some("JSONDecodeError")]
    ELSE IF is_object THEN [parsed |-> Some(res.val), parse_error |-> None]
    ELSE [parsed |-> None, parse_error |-> Some("Parsed JSON must be an object.")]

\* json.loads from the first character at i that is no whitespace
DecodeFrom(text, i) ==
    IF i > Len(text) THEN [parsed |-> None, parse_error |-> Some("JSONDecodeError")]
    ELSE IF text[i] = "{"
    THEN DecodeEnd(text, ParseObject(text, SkipWs(text, i + 1)), TRUE)
    ELSE DecodeEnd(text, ParseValue(text, i), FALSE)

\* (parsed, parse_error) of _parse_json_strict: parsed is an Optional list of
\* <<key, value>> pairs, parse_error an Optional message
_parse_json_strict(text) == DecodeFrom(text, SkipWs(text, 1))

KEY_TITLE == <<"t", "i", "t", "l", "e">>
KEY_DESCRIPTION == <<"d", "e", "s", "c", "r", "i", "p", "t", "i", "o", "n">>

\* parsed.get(key) as an Optional text: None when the key is missing or its value
\* is no string; a repeated key keeps its last value
DictGetStr(pairs, key) ==
    LET hits == {j \in 1..Len(pairs) : pairs[j][1] = key}
    IN  IF hits = {} THEN None
        ELSE LET last == CHOOSE j \in hits : \A h \in hits : j >= h
             IN  IF pairs[last][2].t = "str" THEN Some(pairs[last][2].s) ELSE None

(***************************************************************************)
(* llm_openvino_genai.py: parse_llm_json, parse_llm_output                 *)
(***************************************************************************)
DEBUG_AI_MAX_CHARS == 6000

\* text[:max_chars]
_truncate_text(text, max_chars) ==
    IF Len(text) <= max_chars THEN text ELSE SubSeq(text, 1, max_chars)

\* LlmDebug(): the fields the parser and the generation write
LlmDebug ==
    [raw_text_chars |-> 0, raw_text_truncated |-> None,
     extracted_json_truncated |-> None, extracted_json_chars |-> None,
     json_parse_error |-> None, schema_error |-> None, llm_timeout_hit |-> None]

\* the end of parse_llm_json and parse_llm_output: "ok" or the message of the
\* ValueError of _validate_copy_output on the two values of the decoded object
Verdict(pairs) ==
    _validate_copy_output(DictGetStr(pairs, KEY_TITLE), DictGetStr(pairs, KEY_DESCRIPTION))

\* parse_llm_json from the decoded candidate on
JsonDecoded(candidate, decoded) ==
    IF decoded.parse_error # None
    THEN [candidate |-> candidate, title |-> None, description |-> None,
          error |-> decoded.parse_error]
    ELSE IF decoded.parsed = None
    THEN [candidate |-> candidate, title |-> None, description |-> None,
          error |-> Some("JSON parse failed.")]
    ELSE [candidate |-> candidate,
          title |-> DictGetStr(decoded.parsed[1], KEY_TITLE),
          description |-> DictGetStr(decoded.parsed[1], KEY_DESCRIPTION),
          error |-> IF Verdict(decoded.parsed[1]) = "ok" THEN None
                    ELSE Some(Verdict(decoded.parsed[1]))]

\* parse_llm_json from the extracted candidate on
JsonCandidate(candidate) ==
    IF candidate = None
    THEN [candidate |-> None, title |-> None, description |-> None,
          error |-> Some("No JSON object found.")]
    ELSE JsonDecoded(candidate, _parse_json_strict(candidate[1]))

\* parse_llm_json: error is None when (title, description) is returned, else the
\* message of the ValueError; candidate, title and description are the locals.
parse_llm_json(result) == JsonCandidate(_extract_first_json_object(result))

Returned(title, description, debug) ==
    [kind |-> "return", title |-> title, description |-> description, code |-> "",
     debug |-> debug]
Raised(code, debug) ==
    [kind |-> "raise", title |-> <<>>, description |-> <<>>, code |-> code, debug |-> debug]

\* return "", "" when allow_debug_failure, else raise LLM_OUTPUT_INVALID
InvalidOutput(allow_debug_failure, debug) ==
    IF allow_debug_failure THEN Returned(<<>>, <<>>, debug)
    ELSE Raised("LLM_OUTPUT_INVALID", debug)

\* if debug: the raw text recorded
DebugRaw(debug, raw) ==
    IF debug = None THEN None
    ELSE Some([debug[1] EXCEPT
             !.raw_text_chars = Len(raw),
             !.raw_text_truncated = Some(_truncate_text(raw, DEBUG_AI_MAX_CHARS))])

\* if debug: debug.json_parse_error = message
MutParseErrorNotRecorded(debug, message) == debug
DebugParseError(debug, message) ==
    IF debug = None THEN None
    ELSE Some([debug[1] EXCEPT !.json_parse_error = message])

\* if debug: the candidate recorded
DebugCandidate(debug, text) ==
    IF debug = None THEN None
    ELSE Some([debug[1] EXCEPT
             !.extracted_json_truncated = Some(_truncate_text(text, DEBUG_AI_MAX_CHARS)),
             !.extracted_json_chars = Some(Len(text))])

\* if debug: debug.schema_error = message
DebugSchemaError(debug, message) ==
    IF debug = None THEN None
    ELSE Some([debug[1] EXCEPT !.schema_error = Some(message)])

\* parse_llm_output from the validation on
OutputValidated(pairs, verdict, debug, allow_debug_failure) ==
    IF verdict # "ok"
    THEN InvalidOutput(allow_debug_failure, DebugSchemaError(debug, verdict))
    ELSE Returned(DictGetStr(pairs, KEY_TITLE)[1], DictGetStr(pairs, KEY_DESCRIPTION)[1],
                  debug)

\* parse_llm_output from the decoded candidate on
OutputDecoded(decoded, debug, allow_debug_failure) ==
    IF decoded.parse_error # None
    THEN InvalidOutput(allow_debug_failure, DebugParseError(debug, decoded.parse_error))
    ELSE IF decoded.parsed = None
    THEN InvalidOutput(allow_debug_failure, debug)
    ELSE OutputValidated(decoded.parsed[1], Verdict(decoded.parsed[1]), debug,
                         allow_debug_failure)

\* parse_llm_output from the extracted candidate on
OutputCandidate(candidate, debug, allow_debug_failure) ==
    IF candidate = None
    THEN InvalidOutput(allow_debug_failure,
                       DebugParseError(debug, Some("No JSON object found.")))
    ELSE OutputDecoded(_parse_json_strict(candidate[1]),
                       DebugCandidate(debug, candidate[1]), allow_debug_failure)

\* parse_llm_output: what it returns or raises, and the debug record as it
\* leaves it (debug is an Optional LlmDebug)
parse_llm_output(raw, debug, allow_debug_failure) ==
    OutputCandidate(_extract_first_json_object(raw), DebugRaw(debug, raw),
                    allow_debug_failure)

(***************************************************************************)
(* The parsing of one raw model output: an object rendered as JSON between *)
(* noise, or noise alone.                                                  *)
(***************************************************************************)
MaxPrefixLen == 2
MaxSuffixLen == 1

NoiseChars == {QUOTE, "{", "}", "x"}
Noise(n) == UNION {[1..k -> NoiseChars] : k \in 0..n}

\* json.dumps of a string value: the quote and the backslash escaped
RECURSIVE JsonEscapeRange(_, _, _)
JsonEscapeRange(s, lo, hi) ==
    IF lo > hi THEN <<>>
    ELSE IF lo = hi
    THEN (IF s[lo] \in {QUOTE, BACKSLASH} THEN <<BACKSLASH, s[lo]>> ELSE <<s[lo]>>)
    ELSE LET mid == (lo + hi) \div 2
         IN  JsonEscapeRange(s, lo, mid) \o JsonEscapeRange(s, mid + 1, hi)

JsonEscape(s) == JsonEscapeRange(s, 1, Len(s))

\* {"title":"...","description":"..."}
RenderObject(title, description) ==
    <<"{", QUOTE>> \o KEY_TITLE \o <<QUOTE, ":", QUOTE>> \o JsonEscape(title)
        \o <<QUOTE, ",", QUOTE>> \o KEY_DESCRIPTION \o <<QUOTE, ":", QUOTE>>
        \o JsonEscape(description) \o <<QUOTE, "}">>

SmallValues == {<<"x">>, <<QUOTE>>, <<"}">>, <<BACKSLASH, "{">>}
SmallObjects ==
    {<<v, <<"x">>>> : v \in SmallValues} \cup {<<<<"x">>, v>> : v \in SmallValues}
TestTitles ==
    {Repeat("x", 11), Repeat("x", TITLE_MIN_CHARS), Repeat("x", TITLE_MAX_CHARS + 1)}
TestDescriptions == {<<"x", ".">>, <<"x", ".", " ", "x", ".">>}
NOT_JSON == <<"n", "o", "t", "-", "j", "s", "o", "n">>

\* The fence of a code block marked as JSON, the object, " trailing" and the
\* closing fence, as in the test of the fenced output.  A TLA+ string cannot
\* hold the backtick: the apostrophe stands for it.
BACKTICK == "'"
FENCE_OPEN == <<BACKTICK, BACKTICK, BACKTICK, "j", "s", "o", "n", "\n">>
FENCE_CLOSE ==
    <<" ", "t", "r", "a", "i", "l", "i", "n", "g", "\n", BACKTICK, BACKTICK, BACKTICK>>
\* the text before and after a fence: nothing, a word, or another valid object
AroundFence ==
    {<<>>, <<"x">>,
     RenderObject(Repeat("x", TITLE_MIN_CHARS + 1), <<"x", ".", " ", "x", ".">>)}

InitParse ==
    /\ pj_result = None /\ po_result = None /\ po_debug = None
    /\ \/ \E prefix \in Noise(MaxPrefixLen), suffix \in Noise(MaxSuffixLen),
             object \in SmallObjects :
             /\ raw_text = prefix \o RenderObject(object[1], object[2]) \o suffix
             /\ embedded = Some(object)
             /\ fenced = None
       \/ \E prefix \in Noise(1), suffix \in Noise(1),
             title \in TestTitles, description \in TestDescriptions :
             /\ raw_text = prefix \o RenderObject(title, description) \o suffix
             /\ embedded = Some(<<title, description>>)
             /\ fenced = None
       \/ /\ raw_text \in Noise(MaxPrefixLen) \cup {NOT_JSON}
          /\ embedded = None
          /\ fenced = None
       \/ \E before \in AroundFence, after \in AroundFence,
             description \in TestDescriptions :
             /\ raw_text = before \o FENCE_OPEN
                              \o RenderObject(Repeat("x", TITLE_MIN_CHARS), description)
                              \o FENCE_CLOSE \o after
             /\ embedded = None
             /\ fenced = Some(<<Repeat("x", TITLE_MIN_CHARS), description>>)

ParseLlmJson ==
    /\ pj_result = None /\ po_result = None
    /\ pj_result' = Some(parse_llm_json(raw_text))
    /\ UNCHANGED <<raw_text, embedded, fenced, po_result, po_debug>>

\* the outcome of a call kept with the flag it was called with
Outcome(out, allow_debug_failure) ==
    [kind |-> out.kind, title |-> out.title, description |-> out.description,
     code |-> out.code, debug |-> out.debug, allow_debug_failure |-> allow_debug_failure]

ParseLlmOutput ==
    /\ pj_result = None /\ po_result = None
    /\ \E allow_debug_failure \in BOOLEAN, debug \in {None, Some(LlmDebug)} :
          /\ po_result' = Some(Outcome(parse_llm_output(raw_text, debug, allow_debug_failure),
                                       allow_debug_failure))
          /\ po_debug' = debug
    /\ UNCHANGED <<raw_text, embedded, fenced, pj_result>>

NextParse ==
    \/ ParseLlmJson /\ UNCHANGED <<tagVars, valVars, genVars, pipeVars, libVars>>
    \/ ParseLlmOutput /\ UNCHANGED <<tagVars, valVars, genVars, pipeVars, libVars>>

InitSpecParse ==
    InitParse /\ InitTags /\ InitValIdle /\ InitGenIdle /\ InitPipeIdle /\ InitLibIdle

SpecParse == InitSpecParse /\ [][NextParse]_vars

(***************************************************************************)
(* The validation of one parsed object                                     *)
(***************************************************************************)
MaxTitleLen == 92
MaxDescLen == 9

DescChars == {"x", ".", " "}
AllDescriptions == UNION {[1..n -> DescChars] : n \in 0..MaxDescLen}
SomeDescriptions ==
    {<<>>, <<"x", ".">>, <<"x", ".", " ", "x", ".">>, <<"x", ".", "x", ".", "x", ".", "x">>,
     <<"x", ".", "x", ".", "x", ".", "x", ".", "x">>}
BoundaryTitles ==
    {Repeat("x", TITLE_MIN_CHARS), Repeat("x", TITLE_MAX_CHARS)}

InitValidate ==
    /\ v_result = ""
    /\ \/ /\ v_title \in {None} \cup {Some(Repeat("x", n)) : n \in 0..MaxTitleLen}
          /\ v_description \in {None} \cup {Some(d) : d \in SomeDescriptions}
       \/ /\ v_title \in {Some(t) : t \in BoundaryTitles}
          /\ v_description \in {Some(d) : d \in AllDescriptions}

Validate ==
    /\ v_result = ""
    /\ v_result' = _validate_copy_output(v_title, v_description)
    /\ UNCHANGED <<v_title, v_description>>

NextValidate == Validate /\ UNCHANGED <<tagVars, parseVars, genVars, pipeVars, libVars>>

InitSpecValidate ==
    InitValidate /\ InitTags /\ InitParseIdle /\ InitGenIdle /\ InitPipeIdle /\ InitLibIdle

SpecValidate == InitSpecValidate /\ [][NextValidate]_vars

(***************************************************************************)
(* llm_openvino_genai.py: LlmCopywriter.generate.  The caller's thread     *)
(* walks through generate, _generate_with_retry and _generate_with_timeout;*)
(* with a positive timeout pipeline.generate runs on the worker thread of  *)
(* a ThreadPoolExecutor.                                                   *)
(***************************************************************************)
LLM_TIMEOUT_SECONDS == 20

\* build_copy_prompt(...) and the instruction the retry appends to it
BasePrompt == <<"prompt">>
RETRY_PROMPT == "Return ONLY valid JSON with keys title and description."
Corrective(prompt) == Append(prompt, RETRY_PROMPT)

\* the retry argument of the recursive call of _generate_with_retry
MutRetryAgain == TRUE
RETRY_AFTER_FAILURE == FALSE

\* Raw texts a model call can return: one valid object, a text without an
\* object, a candidate that is no JSON and an object with a short title.
ValidRaw == RenderObject(Repeat("x", TITLE_MIN_CHARS), <<"x", ".", " ", "x", ".">>)
BadJsonRaw == <<"{", "x", "}">>
ShortTitleRaw == RenderObject(Repeat("x", 11), <<"x", ".", " ", "x", ".">>)
InvalidRaws == {NOT_JSON, BadJsonRaw, ShortTitleRaw}
RawOutputs == {ValidRaw} \cup InvalidRaws

\* How one pipeline.generate call behaves: it returns a text, it raises the
\* ValueError of an incorrect GenerationConfig parameter, or it never returns.
Behaviours ==
    {[kind |-> "text", raw |-> r] : r \in RawOutputs}
        \cup {[kind |-> "error", raw |-> <<>>], [kind |-> "never", raw |-> <<>>]}

\* the behaviour of the pipeline.generate call started last
CurrentBehaviour == g_outputs[Min(Len(g_calls), Len(g_outputs))]

\* if debug is not None: debug.llm_timeout_hit = hit
DebugTimeoutHit(debug, hit) ==
    IF debug = None THEN None ELSE Some([debug[1] EXCEPT !.llm_timeout_hit = Some(hit)])

\* the arguments of one generate() call
GenInputs(allow_debug_failure, debug, timeout, outputs) ==
    /\ g_pc = "call" /\ g_retry = TRUE /\ g_prompt = <<>>
    /\ g_allow = allow_debug_failure /\ g_debug = debug /\ g_timeout = timeout
    /\ g_worker = "none" /\ g_result = <<>> /\ g_calls = <<>> /\ g_parsed = <<>>
    /\ g_outcome = None /\ g_outputs = outputs

InitGen ==
    \E allow_debug_failure \in BOOLEAN, debug \in {None, Some(LlmDebug)},
       timeout \in {0, LLM_TIMEOUT_SECONDS}, first \in Behaviours, second \in Behaviours :
        GenInputs(allow_debug_failure, debug, timeout, <<first, second>>)

\* generate: the prompt is built and _generate_with_retry called with retry=True
Generate ==
    /\ g_pc = "call"
    /\ g_prompt' = BasePrompt
    /\ g_retry' = TRUE
    /\ g_pc' = "attempt"
    /\ UNCHANGED <<g_allow, g_timeout, g_debug, g_worker, g_result, g_calls, g_parsed,
                   g_outcome, g_outputs>>

\* _generate_with_retry up to the start of pipeline.generate: on the caller's
\* thread when the timeout is not positive, else submitted to the executor
GenerateWithRetry ==
    /\ g_pc = "attempt"
    /\ g_calls' = Append(g_calls, g_prompt)
    /\ IF g_timeout <= 0
       THEN g_pc' = "sync_call" /\ g_worker' = g_worker
       ELSE g_pc' = "wait_result" /\ g_worker' = "running"
    /\ UNCHANGED <<g_retry, g_prompt, g_allow, g_timeout, g_debug, g_result, g_parsed,
                   g_outcome, g_outputs>>

\* the end of _generate_with_retry when pipeline.generate raised the ValueError
RaiseInvalidConfig ==
    /\ g_outcome' = Some(Raised("INVALID_CONFIG", g_debug))
    /\ g_pc' = "done"
    /\ UNCHANGED <<g_result, g_debug>>

\* _generate_with_timeout returned a text: debug.llm_timeout_hit = False
TakeResult ==
    /\ g_result' = CurrentBehaviour.raw
    /\ g_debug' = DebugTimeoutHit(g_debug, FALSE)
    /\ g_pc' = "parse"
    /\ UNCHANGED g_outcome

\* pipeline.generate ends on the caller's thread
SyncReturn ==
    /\ g_pc = "sync_call"
    /\ CurrentBehaviour.kind # "never"
    /\ IF CurrentBehaviour.kind = "text" THEN TakeResult ELSE RaiseInvalidConfig
    /\ UNCHANGED <<g_retry, g_prompt, g_allow, g_timeout, g_worker, g_calls, g_parsed,
                   g_outputs>>

\* pipeline.generate ends on the worker thread
WorkerFinish ==
    /\ g_worker = "running"
    /\ CurrentBehaviour.kind # "never"
    /\ g_worker' = IF CurrentBehaviour.kind = "text" THEN "done" ELSE "failed"
    /\ UNCHANGED <<g_pc, g_retry, g_prompt, g_allow, g_timeout, g_debug, g_result,
                   g_calls, g_parsed, g_outcome, g_outputs>>

\* future.result(timeout) hands over what the worker ended with; the with
\* block is left with the worker idle
FutureResult ==
    /\ g_pc = "wait_result"
    /\ g_worker \in {"done", "failed"}
    /\ IF g_worker = "done" THEN TakeResult ELSE RaiseInvalidConfig
    /\ g_worker' = "none"
    /\ UNCHANGED <<g_retry, g_prompt, g_allow, g_timeout, g_calls, g_parsed, g_outputs>>

\* future.result(timeout) raises FuturesTimeoutError while the worker runs:
\* debug.llm_timeout_hit = True, and the AiServiceError LLM_TIMEOUT leaves
\* the with block, whose exit is executor.shutdown(wait=True)
TimeoutExpires ==
    /\ g_pc = "wait_result"
    /\ g_worker = "running"
    /\ g_debug' = DebugTimeoutHit(g_debug, TRUE)
    /\ g_pc' = "shutdown_wait"
    /\ UNCHANGED <<g_retry, g_prompt, g_allow, g_timeout, g_worker, g_result, g_calls,
                   g_parsed, g_outcome, g_outputs>>

\* A plausible slip: LLM_TIMEOUT is handled like an invalid output.
MutTimeoutRetried ==
    /\ g_pc = "shutdown_wait"
    /\ g_worker \in {"done", "failed"}
    /\ g_worker' = "none"
    /\ IF g_retry
       THEN /\ g_prompt' = Corrective(g_prompt)
            /\ g_retry' = FALSE
            /\ g_pc' = "attempt"
            /\ UNCHANGED g_outcome
       ELSE /\ g_outcome' = IF g_allow THEN Some(Returned(<<>>, <<>>, g_debug))
                            ELSE Some(Raised("LLM_TIMEOUT", g_debug))
            /\ g_pc' = "done"
            /\ UNCHANGED <<g_prompt, g_retry>>
    /\ UNCHANGED <<g_allow, g_timeout, g_debug, g_result, g_calls, g_parsed, g_outputs>>

\* shutdown(wait=True) returns once the worker has ended; LLM_TIMEOUT reaches
\* _generate_with_retry, which returns "", "" or raises it again
ExecutorExit ==
    /\ g_pc = "shutdown_wait"
    /\ g_worker \in {"done", "failed"}
    /\ g_worker' = "none"
    /\ g_outcome' = IF g_allow THEN Some(Returned(<<>>, <<>>, g_debug))
                    ELSE Some(Raised("LLM_TIMEOUT", g_debug))
    /\ g_pc' = "done"
    /\ UNCHANGED <<g_retry, g_prompt, g_allow, g_timeout, g_debug, g_result, g_calls,
                   g_parsed, g_outputs>>

\* the end of _generate_with_retry: out is what parse_llm_output returned or raised
AfterParse(out) ==
    /\ g_debug' = out.debug
    /\ IF out.kind = "raise" /\ g_retry
       THEN /\ g_prompt' = Corrective(g_prompt)
            /\ g_retry' = RETRY_AFTER_FAILURE
            /\ g_pc' = "attempt"
            /\ g_outcome' = g_outcome
       ELSE /\ g_outcome' = Some(out)
            /\ g_pc' = "done"
            /\ UNCHANGED <<g_prompt, g_retry>>

ParseOutput ==
    /\ g_pc = "parse"
    /\ g_parsed' = Append(g_parsed, g_result)
    /\ AfterParse(parse_llm_output(g_result, g_debug, g_allow))
    /\ UNCHANGED <<g_allow, g_timeout, g_worker, g_result, g_calls, g_outputs>>

NextGen ==
    \/ Generate /\ UNCHANGED <<tagVars, valVars, parseVars, pipeVars, libVars>>
    \/ GenerateWithRetry /\ UNCHANGED <<tagVars, valVars, parseVars, pipeVars, libVars>>
    \/ SyncReturn /\ UNCHANGED <<tagVars, valVars, parseVars, pipeVars, libVars>>
    \/ WorkerFinish /\ UNCHANGED <<tagVars, valVars, parseVars, pipeVars, libVars>>
    \/ FutureResult /\ UNCHANGED <<tagVars, valVars, parseVars, pipeVars, libVars>>
    \/ TimeoutExpires /\ UNCHANGED <<tagVars, valVars, parseVars, pipeVars, libVars>>
    \/ ExecutorExit /\ UNCHANGED <<tagVars, valVars, parseVars, pipeVars, libVars>>
    \/ ParseOutput /\ UNCHANGED <<tagVars, valVars, parseVars, pipeVars, libVars>>

InitSpecGen ==
    InitGen /\ InitTags /\ InitValIdle /\ InitParseIdle /\ InitPipeIdle /\ InitLibIdle

SpecGen == InitSpecGen /\ [][NextGen]_vars

(***************************************************************************)
(* ov_runtime.py: normalize_device and resolve_device                      *)
(***************************************************************************)
DISALLOWED_DEVICE_TOKENS == {<<"A", "U", "T", "O">>, <<"M", "U", "L", "T", "I">>}
OPENVINO_PREFIX == <<"o", "p", "e", "n", "v", "i", "n", "o", ":">>

DeviceReturned(value) == [kind |-> "returned", value |-> value, code |-> ""]
DeviceRaised(code) == [kind |-> "raised", value |-> <<>>, code |-> code]

\* s.split(":", 1)[1]: the text after the first colon
AfterFirstColon(s) ==
    LET colons == {i \in 1..Len(s) : s[i] = ":"}
        first == CHOOSE i \in colons : \A j \in colons : i <= j
    IN  SubSeq(s, first + 1, Len(s))

\* normalize_device from the strip on
NormalizedDevice(stripped) ==
    IF StartsWith(Lower(stripped), OPENVINO_PREFIX) THEN AfterFirstColon(stripped)
    ELSE stripped

normalize_device(device) ==
    IF device = <<>> THEN DeviceRaised("INVALID_INPUT")
    ELSE IF NormalizedDevice(Strip(device)) = <<>> THEN DeviceRaised("INVALID_INPUT")
    ELSE DeviceReturned(Upper(NormalizedDevice(Strip(device))))

\* resolve_device after normalize_device has returned
MutResolveFallsBackToCpu(normalized, available) ==
    IF (\E token \in DISALLOWED_DEVICE_TOKENS : Contains(normalized, token))
       \/ "," \in Range(normalized)
    THEN DeviceRaised("INVALID_INPUT")
    ELSE IF normalized \notin available
    THEN (IF <<"C", "P", "U">> \in available THEN DeviceReturned(<<"C", "P", "U">>)
          ELSE DeviceRaised("DEVICE_NOT_AVAILABLE"))
    ELSE DeviceReturned(normalized)
ResolveNormalized(normalized, available) ==
    IF (\E token \in DISALLOWED_DEVICE_TOKENS : Contains(normalized, token))
       \/ "," \in Range(normalized)
    THEN DeviceRaised("INVALID_INPUT")
    ELSE IF normalized \notin available
    THEN DeviceRaised("DEVICE_NOT_AVAILABLE")
    ELSE DeviceReturned(normalized)

resolve_device(available, device) ==
    IF normalize_device(device).kind = "raised" THEN normalize_device(device)
    ELSE ResolveNormalized(normalize_device(device).value, available)

\* ---- the inputs of one resolve_device call ----
DeviceNames ==
    {<<>>,
     <<"G", "P", "U">>,
     <<"g", "p", "u">>,
     <<"N", "p", "u">>,
     <<"C", "P", "U">>,
     <<"A", "U", "T", "O">>,
     <<"a", "u", "t", "o">>,
     <<"M", "U", "L", "T", "I", ":", "G", "P", "U", ",", "C", "P", "U">>,
     <<"G", "P", "U", ",", "C", "P", "U">>,
     <<"A", "U", "T", "O", ":", "G", "P", "U">>,
     <<"G", "P", "U", ".", "1">>,
     <<"H", "E", "T", "E", "R", "O", ":", "G", "P", "U">>}
DevicePrefixes == {<<>>, OPENVINO_PREFIX, <<"O", "p", "e", "n", "V", "I", "N", "O", ":">>}
DevicePadding == {<<>>, <<" ">>}
DeviceRequests ==
    {left \o prefix \o inner \o name \o right :
        left \in DevicePadding, prefix \in DevicePrefixes, inner \in DevicePadding,
        name \in DeviceNames, right \in DevicePadding}
AvailableDevices == {<<"C", "P", "U">>, <<"G", "P", "U">>, <<"G", "P", "U", ".", "1">>, <<"A", "U", "T", "O">>}

InitDevice ==
    /\ d_device \in DeviceRequests
    /\ d_available \in SUBSET AvailableDevices
    /\ d_result = None

ResolveDevice ==
    /\ d_result = None
    /\ d_result' = Some(resolve_device(d_available, d_device))
    /\ UNCHANGED <<d_device, d_available>>

NextDevice ==
    \/ ResolveDevice
          /\ UNCHANGED <<tagVars, valVars, parseVars, genVars, pipeVars, capVars, normVars,
                          cpVars, lateVars>>

InitSpecDevice ==
    InitDevice /\ InitTags /\ InitValIdle /\ InitParseIdle /\ InitGenIdle /\ InitPipeIdle
        /\ InitCapIdle /\ InitNormIdle /\ InitCpIdle /\ InitLateIdle

SpecDevice == InitSpecDevice /\ [][NextDevice]_vars

(***************************************************************************)
(* captioner_openvino.py: Captioner.generate and _generate_caption.  The   *)
(* compiled graphs and the tokenizer are outside the repository: the       *)
(* vision encoder either yields hidden states or the shape check raises,   *)
(* the text decoder yields one token id per call or raises, and            *)
(* tokenizer.decode(skip_special_tokens=True) joins the texts of the       *)
(* tokens that are not special.                                            *)
(***************************************************************************)
MAX_LENGTH_CAP == 30

\* the vocabulary: [PAD], [CLS] and [SEP] are special, the others are words
PAD_ID == 0
CLS_ID == 101
SEP_ID == 102
WORD_ID == 1037
SpecialIds == {PAD_ID, CLS_ID, SEP_ID}
TokenText(id) == <<"a">>

\* tokenizer.decode(token_ids, skip_special_tokens=True)
TokenizerDecode(token_ids) ==
    LET kept == SelectSeq(token_ids, LAMBDA id : id \notin SpecialIds)
    IN  JoinSpace([i \in 1..Len(kept) |-> TokenText(kept[i])])

\* self.bos_token_id = tokenizer.bos_token_id or tokenizer.cls_token_id or 0
bos_token_id(tokenizer) ==
    IF tokenizer.bos_token_id # None /\ tokenizer.bos_token_id # Some(0)
    THEN tokenizer.bos_token_id[1]
    ELSE IF tokenizer.cls_token_id # None /\ tokenizer.cls_token_id # Some(0)
         THEN tokenizer.cls_token_id[1]
         ELSE 0

\* self.max_length = min(getattr(tokenizer, "model_max_length", 30), 30)
max_length(tokenizer) ==
    IF tokenizer.model_max_length = None THEN MAX_LENGTH_CAP
    ELSE Min(tokenizer.model_max_length[1], MAX_LENGTH_CAP)

Caption(image_index, text) ==
    [image_index |-> image_index, text |-> text, source |-> "blip"]

CaptionRaised(code, message) == [kind |-> "raised", code |-> code, message |-> message]
CaptionReturned(captions) == [kind |-> "returned", captions |-> captions]

\* ---- multi_image.py: captions_per_image and clean_caption_text ----
\* the inner loop of captions_per_image: the text of the first caption of index
RECURSIVE FirstCaptionText(_, _, _)
FirstCaptionText(captions, index, k) ==
    IF k > Len(captions) THEN <<>>
    ELSE IF captions[k].image_index = index THEN captions[k].text
    ELSE FirstCaptionText(captions, index, k + 1)

\* A plausible slip: the texts taken in the order of the list.
MutCaptionsInListOrder(captions, image_count) ==
    [i \in 1..image_count |-> IF i <= Len(captions) THEN captions[i].text ELSE <<>>]
captions_per_image(captions, image_count) ==
    [i \in 1..image_count |-> FirstCaptionText(captions, i - 1, 1)]

CAPTION_MAX_CHARS == 280
CAPTION_DEDUP_REPETITION_THRESHOLD == 3

\* re.sub(r"[\\/|]{4,}", " ", text)
BarRun(text, i) ==
    LET stops == {j \in i..(Len(text) + 1) :
                     j = Len(text) + 1 \/ text[j] \notin {"\\", "/", "|"}}
    IN  (CHOOSE j \in stops : \A k \in stops : j <= k) - i

RECURSIVE SubBarRuns(_, _)
SubBarRuns(text, i) ==
    IF i > Len(text) THEN <<>>
    ELSE IF BarRun(text, i) >= 4 THEN <<" ">> \o SubBarRuns(text, i + BarRun(text, i))
    ELSE <<text[i]>> \o SubBarRuns(text, i + 1)

\* the loop over the tokens: a token repeated more than repetition_threshold
\* times in a row is dropped
RECURSIVE DedupTokens(_, _, _, _, _, _)
DedupTokens(tokens, i, deduped, last_token_normalized, repeat_count, threshold) ==
    IF i > Len(tokens) THEN deduped
    ELSE LET normalized_token == Lower(tokens[i])
             count == IF normalized_token = last_token_normalized
                      THEN repeat_count + 1 ELSE 1
         IN  DedupTokens(tokens, i + 1,
                         IF count > threshold THEN deduped ELSE Append(deduped, tokens[i]),
                         normalized_token, count, threshold)

\* token_histogram.most_common(1)[0]: <<token, count>>, the first inserted
\* token among those of the greatest count
MostCommon(tokens) ==
    LET normalized == [j \in 1..Len(tokens) |-> Lower(tokens[j])]
        Count(i) == Cardinality({j \in 1..Len(tokens) : normalized[j] = normalized[i]})
        first == CHOOSE i \in 1..Len(tokens) :
                    /\ \A j \in 1..Len(tokens) : Count(j) <= Count(i)
                    /\ \A j \in 1..(i - 1) : Count(j) < Count(i)
    IN  <<normalized[first], Count(first)>>

\* str.rstrip()
RStrip(s) ==
    LET keep == {i \in 1..Len(s) : ~IsSpace(s[i])}
    IN  IF keep = {} THEN <<>>
        ELSE SubSeq(s, 1, CHOOSE i \in keep : \A j \in keep : i >= j)

CleanedTokens(tokens, deduped, repetition_threshold) ==
    IF deduped # <<>>
       /\ MostCommon(tokens)[2] * 10 >= 8 * Max(1, Len(tokens))
       /\ MostCommon(tokens)[2] > repetition_threshold
    THEN <<MostCommon(tokens)[1]>>
    ELSE deduped

clean_caption_text(text, max_chars, repetition_threshold) ==
    IF text = <<>> THEN <<>>
    ELSE LET tokens == Split(SubBarRuns(text, 1))
             deduped == DedupTokens(tokens, 1, <<>>, <<>>, 0, repetition_threshold)
             cleaned == Strip(JoinSpace(CleanedTokens(tokens, deduped, repetition_threshold)))
         IN  IF Len(cleaned) > max_chars THEN RStrip(SubSeq(cleaned, 1, max_chars))
             ELSE cleaned

\* ---- the inputs of one Captioner.generate call ----
MaxCaptionImages == 2
MaxCaptionsArg == 2
MaxDecoderPrefix == 2

\* the attributes of the tokenizer that __init__ reads
Tokenizer(bos, cls, eos, model_max_length) ==
    [bos_token_id |-> bos, cls_token_id |-> cls, eos_token_id |-> eos,
     model_max_length |-> model_max_length]
Tokenizers ==
    {Tokenizer(None, Some(CLS_ID), None, Some(512)),
     Tokenizer(None, Some(CLS_ID), Some(SEP_ID), Some(512)),
     Tokenizer(None, None, Some(SEP_ID), None),
     Tokenizer(Some(CLS_ID), None, Some(SEP_ID), Some(2)),
     Tokenizer(Some(0), Some(CLS_ID), None, Some(1))}

\* what the decoder's argmax yields: the listed outputs step by step, then the
\* last one again for every later step (a greedy decoder that has entered a
\* cycle); DECODER_RAISES stands for a failure inside _decode
DECODER_RAISES == -1
DecoderOutputs == {WORD_ID, PAD_ID, SEP_ID, DECODER_RAISES}
DecoderBehaviours ==
    UNION {[1..n -> DecoderOutputs] : n \in 1..MaxDecoderPrefix}
DecoderOutput(behaviour, step) == behaviour[Min(step + 1, Len(behaviour))]

InitCaption ==
    /\ c_pc = "loop"
    /\ c_args \in [images : 0..MaxCaptionImages, max_captions : 0..MaxCaptionsArg,
                   tokenizer : Tokenizers]
    /\ c_index = 0 /\ c_round = 0
    /\ c_decoder = <<>> /\ c_input_ids = <<>> /\ c_decoder_calls = 0
    /\ c_decode_inputs = None
    /\ c_captions = <<>> /\ c_outcome = None

\* the loops of generate are exhausted: return captions
GenerateReturn ==
    /\ c_pc = "loop"
    /\ c_index >= c_args.images
    /\ c_pc' = "done"
    /\ c_outcome' = Some(CaptionReturned(c_captions))
    /\ UNCHANGED <<c_args, c_index, c_round, c_decoder, c_input_ids,
                   c_decoder_calls, c_decode_inputs, c_captions>>

\* _generate_caption up to the loop: _encode_image, input_ids = [[bos]].  The
\* graphs are deterministic: a later round on the same image behaves as the first.
EncodeImage ==
    /\ c_pc = "loop"
    /\ c_index < c_args.images
    /\ \/ /\ c_round = 0
          /\ c_pc' = "done"
          /\ c_outcome' = Some(CaptionRaised("INFERENCE_FAILED",
                                  "BLIP vision encoder input shape mismatch."))
          /\ UNCHANGED <<c_decoder, c_input_ids, c_decoder_calls, c_decode_inputs>>
       \/ /\ IF c_round = 0
             THEN \E behaviour \in DecoderBehaviours : c_decoder' = behaviour
             ELSE UNCHANGED c_decoder
          /\ c_input_ids' = <<bos_token_id(c_args.tokenizer)>>
          /\ c_decoder_calls' = 0
          /\ c_decode_inputs' = None
          /\ c_pc' = "decode"
          /\ UNCHANGED c_outcome
    /\ UNCHANGED <<c_args, c_index, c_round, c_captions>>

\* the inputs dict _decode hands to self.text_decoder: input_ids, the
\* attention mask np.ones_like(input_ids) and encoder_hidden_states; no
\* input carries key/value tensors of an earlier step
DecodeInputs(input_ids) ==
    [input_ids |-> input_ids,
     attention_mask |-> [i \in 1..Len(input_ids) |-> 1],
     past_key_values |-> None]

\* one iteration of for step in range(self.max_length)
DecodeStepDone(next_token, eos_token_id, steps) ==
    \/ eos_token_id # None /\ next_token = eos_token_id[1]
    \/ steps >= max_length(c_args.tokenizer)

DecodeStep ==
    /\ c_pc = "decode"
    /\ c_decoder_calls < max_length(c_args.tokenizer)
    /\ c_decoder_calls' = c_decoder_calls + 1
    /\ c_decode_inputs' = Some(DecodeInputs(c_input_ids))
    /\ LET next_token == DecoderOutput(c_decoder, c_decoder_calls)
       IN  IF next_token = DECODER_RAISES
           THEN /\ c_pc' = "done"
                /\ c_outcome' = Some(CaptionRaised("INFERENCE_FAILED",
                        "BLIP text decoder failed to run with provided shapes."))
                /\ UNCHANGED c_input_ids
           ELSE /\ c_input_ids' = Append(c_input_ids, next_token)
                /\ c_pc' = IF DecodeStepDone(next_token,
                                  c_args.tokenizer.eos_token_id, c_decoder_calls + 1)
                           THEN "text" ELSE "decode"
                /\ UNCHANGED c_outcome
    /\ UNCHANGED <<c_args, c_index, c_round, c_decoder, c_captions>>

\* if not text: raise
MutEmptyCaptionKept(text) == FALSE
EmptyCaption(text) == text = <<>>

\* the end of _generate_caption and the rest of the inner loop's body
FinishCaption ==
    /\ c_pc = "text"
    /\ LET text == Strip(TokenizerDecode(c_input_ids))
       IN  IF EmptyCaption(text)
           THEN /\ c_pc' = "done"
                /\ c_outcome' = Some(CaptionRaised("INFERENCE_FAILED",
                                        "Caption model returned empty caption."))
                /\ UNCHANGED <<c_index, c_round, c_captions>>
           ELSE /\ c_captions' = Append(c_captions, Caption(c_index, text))
                /\ IF c_round + 1 < Max(1, c_args.max_captions)
                   THEN c_round' = c_round + 1 /\ UNCHANGED c_index
                   ELSE c_round' = 0 /\ c_index' = c_index + 1
                /\ c_pc' = "loop"
                /\ UNCHANGED c_outcome
    /\ UNCHANGED <<c_args, c_decoder, c_input_ids, c_decoder_calls, c_decode_inputs>>

NextCaption ==
    \/ GenerateReturn
          /\ UNCHANGED <<tagVars, valVars, parseVars, genVars, pipeVars, devVars, normVars,
                          cpVars, lateVars>>
    \/ EncodeImage
          /\ UNCHANGED <<tagVars, valVars, parseVars, genVars, pipeVars, devVars, normVars,
                          cpVars, lateVars>>
    \/ DecodeStep
          /\ UNCHANGED <<tagVars, valVars, parseVars, genVars, pipeVars, devVars, normVars,
                          cpVars, lateVars>>
    \/ FinishCaption
          /\ UNCHANGED <<tagVars, valVars, parseVars, genVars, pipeVars, devVars, normVars,
                          cpVars, lateVars>>

InitSpecCaption ==
    InitCaption /\ InitTags /\ InitValIdle /\ InitParseIdle /\ InitGenIdle /\ InitPipeIdle
        /\ InitDevIdle /\ InitNormIdle /\ InitCpIdle /\ InitLateIdle

SpecCaption == InitSpecCaption /\ [][NextCaption]_vars

(***************************************************************************)
(* orchestrator.py: run_pipeline.  Each stage either completes or raises   *)
(* an AiServiceError; the copy generation is the state machine above.      *)
(***************************************************************************)
Settings ==
    [ENABLE_CPU_FALLBACK : BOOLEAN, DEBUG : BOOLEAN, DEBUG_AI : BOOLEAN,
     DEBUG_AI_RESPONSE : BOOLEAN]

debug_enabled ==
    p_settings.DEBUG \/ p_settings.DEBUG_AI \/ p_payload_debug
        \/ p_settings.DEBUG_AI_RESPONSE

debug_response ==
    p_settings.DEBUG \/ (debug_enabled /\ p_settings.DEBUG_AI_RESPONSE)

\* the codes each step of the try block can raise
StageErrors(stage) ==
    CASE stage = "load_images" -> {"INVALID_IMAGE", "INVALID_INPUT"}
      [] stage = "tagger" -> {"MODEL_NOT_AVAILABLE", "DEVICE_NOT_AVAILABLE"}
      [] stage = "predict" -> {"INFERENCE_FAILED"}
      [] stage = "captioner" -> {"MODEL_NOT_AVAILABLE", "INFERENCE_FAILED"}
      [] stage = "captions" -> {"INFERENCE_FAILED"}
      [] stage = "llm_init" -> {"MODEL_NOT_AVAILABLE", "INVALID_INPUT"}

MutNextStageSkipsMerge(stage) ==
    CASE stage = "load_images" -> "tagger"
      [] stage = "tagger" -> "predict"
      [] stage = "predict" -> "captioner"
      [] stage = "merge" -> "captioner"
      [] stage = "captioner" -> "captions"
      [] stage = "captions" -> "llm_init"
      [] stage = "llm_init" -> "llm_generate"
NextStage(stage) ==
    CASE stage = "load_images" -> "tagger"
      [] stage = "tagger" -> "predict"
      [] stage = "predict" -> "merge"
      [] stage = "merge" -> "captioner"
      [] stage = "captioner" -> "captions"
      [] stage = "captions" -> "llm_init"
      [] stage = "llm_init" -> "llm_generate"

\* AnalyzeDebug(llm=LlmDebug()) with the fields run_pipeline fills from the
\* tag consensus and from the captions
AnalyzeDebug(llm) ==
    [llm |-> llm, clip_tags_intersection |-> <<>>, tag_merge_strategy |-> None,
     tag_merge_fallback |-> None, captions_sent_to_llm |-> None]

\* AnalyzeProductResponse(title, description, tags, captions, ..., debug)
Response(title, description, tags, captions, debug) ==
    [kind |-> "success", code |-> "", title |-> title, description |-> description,
     tags |-> tags, captions |-> captions, debug |-> debug]

\* an AiServiceError leaving run_pipeline, exc.debug as it leaves
Failure(code, debug) ==
    [kind |-> "failure", code |-> code, title |-> <<>>, description |-> <<>>,
     debug |-> debug]

\* except AiServiceError: exc.debug = debug_info if debug_response and debug_info
FailureInTry(code, debug_info) ==
    Failure(code, IF debug_response /\ debug_info # None THEN debug_info ELSE None)

\* ---- the inputs of one run ----
MaxPipeImages == 2

\* what tagger.predict returns for one image
PredictedTags ==
    {<<Tag(<<"a">>, Some(2), "clip"), Tag(<<"b">>, Some(-1), "clip")>>,
     <<Tag(<<" ", "A">>, Some(-1), "clip")>>,
     <<Tag(<<"b">>, Some(2), "clip")>>}

\* payload.max_captions or settings.MAX_CAPTIONS_PER_IMAGE
PipeMaxCaptions == {1, 2}

\* payload.max_tags or settings.MAX_TAGS
PipeMaxTags == {1, 2}

\* the text the captioner produces for the image of an index
CaptionTextOf(index) ==
    CASE index = 0 -> <<"a", " ", "b">>
      [] index = 1 -> <<"B", " ", "b", " ", "b", " ", "b", " ", "b">>
      [] OTHER -> <<"b">>

InitPipe ==
    /\ p_pc = "start"
    /\ p_settings \in Settings
    /\ p_payload_debug \in BOOLEAN
    /\ p_debug_info = None
    /\ p_outcome = None
    /\ p_images = 0
    /\ p_max_tags \in PipeMaxTags
    /\ p_tags_per_image = <<>> /\ p_merged = None
    /\ p_captions = <<>> /\ p_llm_call = None /\ p_trace = <<>>

\* if settings.ENABLE_CPU_FALLBACK: raise INVALID_INPUT
CheckCpuFallback ==
    /\ p_pc = "start"
    /\ IF p_settings.ENABLE_CPU_FALLBACK
       THEN p_outcome' = Some(Failure("INVALID_INPUT", None)) /\ p_pc' = "done"
       ELSE p_outcome' = p_outcome /\ p_pc' = "ensure_models"
    /\ UNCHANGED <<p_settings, p_payload_debug, p_debug_info, pipeDataVars, p_trace>>

\* ensure_models, outside the try block, then the debug flags and debug_info
EnsureModels ==
    /\ p_pc = "ensure_models"
    /\ \E r \in {"ok", "MODEL_NOT_AVAILABLE"} :
          IF r = "ok"
          THEN /\ p_debug_info' = IF debug_enabled THEN Some(AnalyzeDebug(LlmDebug))
                                  ELSE None
               /\ p_pc' = "load_images"
               /\ p_outcome' = p_outcome
          ELSE /\ p_outcome' = Some(Failure(r, None))
               /\ p_pc' = "done"
               /\ p_debug_info' = p_debug_info
    /\ UNCHANGED <<p_settings, p_payload_debug, pipeDataVars, p_trace>>

\* load_images and the construction of the tagger, the captioner and the LLM
RunStage ==
    /\ p_pc \in {"load_images", "tagger", "captioner", "llm_init"}
    /\ p_trace' = Append(p_trace, <<p_pc, 0>>)
    /\ \E r \in {"ok"} \cup StageErrors(p_pc), n \in 1..MaxPipeImages :
          /\ IF r = "ok"
             THEN p_pc' = NextStage(p_pc) /\ p_outcome' = p_outcome
             ELSE p_pc' = "done" /\ p_outcome' = Some(FailureInTry(r, p_debug_info))
          /\ p_images' = IF r = "ok" /\ p_pc = "load_images" THEN n ELSE p_images
    /\ UNCHANGED <<p_settings, p_payload_debug, p_debug_info, p_max_tags,
                   p_tags_per_image, p_merged, p_captions, p_llm_call>>

\* one iteration of for image in images: tags_per_image.append(tagger.predict(...))
TaggerPredict ==
    /\ p_pc = "predict"
    /\ p_trace' = Append(p_trace, <<"predict", Len(p_tags_per_image)>>)
    /\ \/ \E tags \in {l \in PredictedTags : Len(l) <= Max(1, p_max_tags)} :
             /\ p_tags_per_image' = Append(p_tags_per_image, tags)
             /\ p_pc' = IF Len(p_tags_per_image) + 1 < p_images
                        THEN "predict" ELSE NextStage("predict")
             /\ p_outcome' = p_outcome
       \/ \E r \in StageErrors("predict") :
             /\ p_pc' = "done"
             /\ p_outcome' = Some(FailureInTry(r, p_debug_info))
             /\ UNCHANGED p_tags_per_image
    /\ UNCHANGED <<p_settings, p_payload_debug, p_debug_info, p_images, p_max_tags,
                   p_merged, p_captions, p_llm_call>>

\* merged = merge_tags_for_images(tags_per_image, max_tags) and the debug fields
MergeStage ==
    /\ p_pc = "merge"
    /\ p_trace' = Append(p_trace, <<"merge", 0>>)
    /\ LET result == merge_tags_for_images(p_tags_per_image, p_max_tags)
       IN  /\ p_merged' = Some(result)
           /\ p_debug_info' =
                 IF p_debug_info = None THEN None
                 ELSE Some([p_debug_info[1] EXCEPT
                              !.clip_tags_intersection = result.intersection,
                              !.tag_merge_strategy = Some(result.strategy),
                              !.tag_merge_fallback = result.fallback])
    /\ p_pc' = NextStage("merge")
    /\ UNCHANGED <<p_settings, p_payload_debug, p_outcome, p_images, p_max_tags,
                   p_tags_per_image, p_captions, p_llm_call>>

\* captions = captioner.generate(images, max_captions=max_captions, ...)
CaptionerCaptions(images, max_captions) ==
    [k \in 1..(images * Max(1, max_captions)) |->
        Caption((k - 1) \div Max(1, max_captions),
                CaptionTextOf((k - 1) \div Max(1, max_captions)))]

CaptionerGenerate ==
    /\ p_pc = "captions"
    /\ p_trace' = Append(p_trace, <<"captions", 0>>)
    /\ \/ \E max_captions \in PipeMaxCaptions :
             /\ p_captions' = CaptionerCaptions(p_images, max_captions)
             /\ p_pc' = NextStage("captions")
             /\ p_outcome' = p_outcome
       \/ \E r \in StageErrors("captions") :
             /\ p_pc' = "done"
             /\ p_outcome' = Some(FailureInTry(r, p_debug_info))
             /\ UNCHANGED p_captions
    /\ UNCHANGED <<p_settings, p_payload_debug, p_debug_info, p_images, p_max_tags,
                   p_tags_per_image, p_merged, p_llm_call>>

\* the caller enters generate() with these arguments
EnterGenerate(allow_debug_failure, debug, timeout, outputs) ==
    /\ g_pc' = "call" /\ g_retry' = TRUE /\ g_prompt' = <<>>
    /\ g_allow' = allow_debug_failure /\ g_debug' = debug /\ g_timeout' = timeout
    /\ g_worker' = "none" /\ g_result' = <<>> /\ g_calls' = <<>> /\ g_parsed' = <<>>
    /\ g_outcome' = None /\ g_outputs' = outputs

\* A plausible slip: the whole intersection handed on, not cut to max_tags
\* and empty when the fallback was taken.
MutTagValuesFromIntersection(merge_result) == merge_result.intersection

\* tag_values = merged.tags_for_llm or normalize_tags([tag.value for tag in tags])
tag_values(merge_result) ==
    IF merge_result.tags_for_llm # <<>> THEN merge_result.tags_for_llm
    ELSE normalize_tags([j \in 1..Len(merge_result.merged_tags) |->
                            merge_result.merged_tags[j].value])

\* caption_texts: the cleaned captions_per_image(captions, len(images))
caption_texts(captions, images) ==
    LET caption_texts_raw == captions_per_image(captions, images)
    IN  [i \in 1..Len(caption_texts_raw) |->
            clean_caption_text(caption_texts_raw[i], CAPTION_MAX_CHARS,
                               CAPTION_DEDUP_REPETITION_THRESHOLD)]

\* llm.generate(price, currency, tag_values, caption_texts, ...,
\*              debug=debug_info.llm, allow_debug_failure=debug_response)
CallGenerate ==
    /\ p_pc = "llm_generate"
    /\ g_pc = "idle"
    /\ p_pc' = "llm_wait"
    /\ p_trace' = Append(p_trace, <<"llm_generate", 0>>)
    /\ p_llm_call' = Some([tags |-> tag_values(p_merged[1]),
                           captions |-> caption_texts(p_captions, p_images)])
    /\ p_debug_info' =
          IF p_debug_info = None THEN None
          ELSE Some([p_debug_info[1] EXCEPT
                       !.captions_sent_to_llm =
                           Some(caption_texts(p_captions, p_images))])
    /\ \E timeout \in {0, LLM_TIMEOUT_SECONDS}, first \in Behaviours, second \in Behaviours :
          EnterGenerate(debug_response,
                        IF p_debug_info = None THEN None ELSE Some(p_debug_info[1].llm),
                        timeout, <<first, second>>)
    /\ UNCHANGED <<p_settings, p_payload_debug, p_outcome, p_images, p_max_tags,
                   p_tags_per_image, p_merged, p_captions>>

\* the end of run_pipeline: the response, or the AiServiceError of generate.
\* debug_info.llm is the record generate wrote.
AfterGenerate(out, debug_info) ==
    /\ p_debug_info' = debug_info
    /\ p_outcome' = IF out.kind = "return"
                    THEN Some(Response(out.title, out.description,
                                       p_merged[1].merged_tags, p_captions,
                                       IF debug_response THEN debug_info ELSE None))
                    ELSE Some(FailureInTry(out.code, debug_info))

ReturnFromGenerate ==
    /\ p_pc = "llm_wait"
    /\ g_pc = "done"
    /\ p_pc' = "done"
    /\ AfterGenerate(g_outcome[1],
                     IF g_debug = None THEN None
                     ELSE Some([p_debug_info[1] EXCEPT !.llm = g_debug[1]]))
    /\ UNCHANGED <<p_settings, p_payload_debug, pipeDataVars, p_trace>>

NextPipe ==
    \/ CheckCpuFallback /\ UNCHANGED <<tagVars, valVars, parseVars, genVars, libVars>>
    \/ EnsureModels /\ UNCHANGED <<tagVars, valVars, parseVars, genVars, libVars>>
    \/ RunStage /\ UNCHANGED <<tagVars, valVars, parseVars, genVars, libVars>>
    \/ TaggerPredict /\ UNCHANGED <<tagVars, valVars, parseVars, genVars, libVars>>
    \/ MergeStage /\ UNCHANGED <<tagVars, valVars, parseVars, genVars, libVars>>
    \/ CaptionerGenerate /\ UNCHANGED <<tagVars, valVars, parseVars, genVars, libVars>>
    \/ CallGenerate /\ UNCHANGED <<tagVars, valVars, parseVars, libVars>>
    \/ Generate /\ UNCHANGED <<tagVars, valVars, parseVars, pipeVars, libVars>>
    \/ GenerateWithRetry /\ UNCHANGED <<tagVars, valVars, parseVars, pipeVars, libVars>>
    \/ SyncReturn /\ UNCHANGED <<tagVars, valVars, parseVars, pipeVars, libVars>>
    \/ WorkerFinish /\ UNCHANGED <<tagVars, valVars, parseVars, pipeVars, libVars>>
    \/ FutureResult /\ UNCHANGED <<tagVars, valVars, parseVars, pipeVars, libVars>>
    \/ TimeoutExpires /\ UNCHANGED <<tagVars, valVars, parseVars, pipeVars, libVars>>
    \/ ExecutorExit /\ UNCHANGED <<tagVars, valVars, parseVars, pipeVars, libVars>>
    \/ ParseOutput /\ UNCHANGED <<tagVars, valVars, parseVars, pipeVars, libVars>>
    \/ ReturnFromGenerate /\ UNCHANGED <<tagVars, valVars, parseVars, genVars, libVars>>

InitSpecPipe ==
    InitPipe /\ InitTags /\ InitValIdle /\ InitParseIdle /\ InitGenIdle /\ InitLibIdle

SpecPipe == InitSpecPipe /\ [][NextPipe]_vars

(***************************************************************************)
(* normalize.py, multi_image.py: normalize_tags and normalize_tag_value    *)
(* applied to strings with upper-case letters and whitespace of several    *)
(* kinds, and applied once more to their own results.                      *)
(***************************************************************************)
MaxNormTags == 3

\* strings like those of the test of normalize_tags: the same value in
\* several spellings, empty and blank strings, runs of whitespace
RawTagValues ==
    {<<>>, <<" ">>, <<"a">>, <<"A">>, <<" ", " ", "a", " ">>, <<"b">>,
     <<"a", " ", " ", "b">>, <<"a", " ", "b">>, <<"A", "\t", "B">>, <<"\n", "B">>}

TagLists(n) == UNION {[1..k -> RawTagValues] : k \in 0..n}

InitNormalize ==
    /\ n_tags \in TagLists(MaxNormTags)
    /\ n_value = None /\ n_value_runs = <<>> /\ n_tags_runs = <<>>

\* normalize_tag_value(value) for one of the strings
NormalizeTagValue ==
    /\ n_value = None
    /\ \E i \in 1..Len(n_tags) :
          /\ n_value' = Some(n_tags[i])
          /\ n_value_runs' = <<normalize_tag_value(n_tags[i])>>
    /\ UNCHANGED <<n_tags, n_tags_runs>>

\* normalize_tag_value applied to its own result
NormalizeTagValueAgain ==
    /\ Len(n_value_runs) = 1
    /\ n_value_runs' = Append(n_value_runs, normalize_tag_value(n_value_runs[1]))
    /\ UNCHANGED <<n_tags, n_value, n_tags_runs>>

\* normalize_tags(tags)
NormalizeTags ==
    /\ n_tags_runs = <<>>
    /\ n_tags_runs' = <<normalize_tags(n_tags)>>
    /\ UNCHANGED <<n_tags, n_value, n_value_runs>>

\* normalize_tags applied to its own result
NormalizeTagsAgain ==
    /\ Len(n_tags_runs) = 1
    /\ n_tags_runs' = Append(n_tags_runs, normalize_tags(n_tags_runs[1]))
    /\ UNCHANGED <<n_tags, n_value, n_value_runs>>

NextNormalize ==
    \/ NormalizeTagValue
          /\ UNCHANGED <<tagVars, valVars, parseVars, genVars, pipeVars, capVars, devVars,
                          cpVars, lateVars>>
    \/ NormalizeTagValueAgain
          /\ UNCHANGED <<tagVars, valVars, parseVars, genVars, pipeVars, capVars, devVars,
                          cpVars, lateVars>>
    \/ NormalizeTags
          /\ UNCHANGED <<tagVars, valVars, parseVars, genVars, pipeVars, capVars, devVars,
                          cpVars, lateVars>>
    \/ NormalizeTagsAgain
          /\ UNCHANGED <<tagVars, valVars, parseVars, genVars, pipeVars, capVars, devVars,
                          cpVars, lateVars>>

InitSpecNormalize ==
    /\ InitNormalize /\ InitTags /\ InitValIdle /\ InitParseIdle /\ InitGenIdle
    /\ InitPipeIdle /\ InitCapIdle /\ InitDevIdle /\ InitCpIdle /\ InitLateIdle

SpecNormalize == InitSpecNormalize /\ [][NextNormalize]_vars

(***************************************************************************)
(* multi_image.py, orchestrator.py: captions_per_image on a caption list,  *)
(* on the same captions in another order, and the caption texts that       *)
(* run_pipeline computes from it for the copy generator.                   *)
(***************************************************************************)
MaxCaptionList == 3

ImageCounts == 0..3
CaptionIndexes == 0..2
CaptionTexts == {<<"a">>, <<"b", " ", " ", "b">>}
CaptionChoices == {Caption(index, text) : index \in CaptionIndexes, text \in CaptionTexts}
CaptionLists(n) == UNION {[1..k -> CaptionChoices] : k \in 0..n}

\* the orders a list of n captions can be put in
Orders(n) == {f \in [1..n -> 1..n] : \A i, j \in 1..n : f[i] = f[j] => i = j}

InitCaptionTexts ==
    /\ cp_captions \in CaptionLists(MaxCaptionList)
    /\ cp_image_count \in ImageCounts
    /\ cp_results = None /\ cp_reordered = <<>> /\ cp_results_reordered = None
    /\ cp_texts = None

\* captions_per_image(captions, image_count)
CaptionsPerImage ==
    /\ cp_results = None
    /\ cp_results' = Some(captions_per_image(cp_captions, cp_image_count))
    /\ UNCHANGED <<cp_captions, cp_image_count, cp_reordered, cp_results_reordered, cp_texts>>

\* captions_per_image on the same captions listed in another order
CaptionsPerImageReordered ==
    /\ cp_results_reordered = None
    /\ \E order \in Orders(Len(cp_captions)) :
          LET reordered == [i \in 1..Len(cp_captions) |-> cp_captions[order[i]]]
          IN  /\ cp_reordered' = reordered
              /\ cp_results_reordered' = Some(captions_per_image(reordered, cp_image_count))
    /\ UNCHANGED <<cp_captions, cp_image_count, cp_results, cp_texts>>

\* run_pipeline: caption_texts_raw and caption_texts, the argument of llm.generate
CaptionTextsForLlm ==
    /\ cp_texts = None
    /\ cp_texts' = Some(caption_texts(cp_captions, cp_image_count))
    /\ UNCHANGED <<cp_captions, cp_image_count, cp_results, cp_reordered,
                   cp_results_reordered>>

NextCaptionTexts ==
    \/ CaptionsPerImage
          /\ UNCHANGED <<tagVars, valVars, parseVars, genVars, pipeVars, capVars, devVars,
                          normVars, lateVars>>
    \/ CaptionsPerImageReordered
          /\ UNCHANGED <<tagVars, valVars, parseVars, genVars, pipeVars, capVars, devVars,
                          normVars, lateVars>>
    \/ CaptionTextsForLlm
          /\ UNCHANGED <<tagVars, valVars, parseVars, genVars, pipeVars, capVars, devVars,
                          normVars, lateVars>>

InitSpecCaptionTexts ==
    /\ InitCaptionTexts /\ InitTags /\ InitValIdle /\ InitParseIdle /\ InitGenIdle
    /\ InitPipeIdle /\ InitCapIdle /\ InitDevIdle /\ InitNormIdle /\ InitLateIdle

SpecCaptionTexts == InitSpecCaptionTexts /\ [][NextCaptionTexts]_vars

(***************************************************************************)
(* multi_image.py: build_tag_sets and merge_tags_for_images on the same    *)
(* per-image tag lists, as run_pipeline calls them.                        *)
(***************************************************************************)
MaxSetImages == 3

\* what the tagger returns for one image: values with equal and with
\* different scores, a value spelled differently, an image without tags
TagSetImages ==
    {<<Tag(<<"b">>, Some(2), "clip"), Tag(<<"a">>, Some(2), "clip")>>,
     <<Tag(<<"a">>, Some(2), "clip")>>,
     <<Tag(<<"b">>, Some(-1), "clip"), Tag(<<" ", "A">>, Some(4), "clip")>>,
     <<Tag(<<"c">>, Some(1), "clip"), Tag(<<"b">>, Some(2), "clip")>>,
     <<>>}
TagSetInputs(n) == UNION {[1..k -> TagSetImages] : k \in 0..n}

\* settings.TAG_SHARED_MIN_RATIO: 0, 1/2, 1 and a value above 1
MinSharedRatios == {<<0, 1>>, <<1, 2>>, <<1, 1>>, <<3, 2>>}
\* settings.MAX_SOFT_TAGS
MaxSoftTags == {-1, 0, 1, 12}
\* max_tags of merge_tags_for_images
SetMaxTags == {1, 12}

InitTagSets ==
    /\ ts_tags_per_image \in TagSetInputs(MaxSetImages)
    /\ ts_min_shared_ratio \in MinSharedRatios
    /\ ts_max_soft_tags \in MaxSoftTags
    /\ ts_result = None /\ ts_merged = None

\* merged = merge_tags_for_images(tags_per_image, max_tags=max_tags)
MergeForTagSets ==
    /\ ts_merged = None
    /\ \E mt \in SetMaxTags :
          ts_merged' = Some(merge_tags_for_images(ts_tags_per_image, mt))
    /\ UNCHANGED <<ts_tags_per_image, ts_min_shared_ratio, ts_max_soft_tags, ts_result>>

\* tag_sets = build_tag_sets(tags_per_image, min_shared_ratio=..., max_soft_tags=...)
BuildTagSets ==
    /\ ts_result = None
    /\ ts_result' = Some(build_tag_sets(ts_tags_per_image, ts_min_shared_ratio,
                                         ts_max_soft_tags))
    /\ UNCHANGED <<ts_tags_per_image, ts_min_shared_ratio, ts_max_soft_tags, ts_merged>>

NextTagSets ==
    \/ MergeForTagSets
          /\ UNCHANGED <<tagVars, valVars, parseVars, genVars, pipeVars, capVars, devVars,
                          normVars, cpVars, mmVars>>
    \/ BuildTagSets
          /\ UNCHANGED <<tagVars, valVars, parseVars, genVars, pipeVars, capVars, devVars,
                          normVars, cpVars, mmVars>>

InitSpecTagSets ==
    /\ InitTagSets /\ InitTags /\ InitValIdle /\ InitParseIdle /\ InitGenIdle
    /\ InitPipeIdle /\ InitCapIdle /\ InitDevIdle /\ InitNormIdle /\ InitCpIdle
    /\ InitMmIdle

SpecTagSets == InitSpecTagSets /\ [][NextTagSets]_vars

(***************************************************************************)
(* model_manager.py: two concurrent calls of ensure_models on one model    *)
(* directory.  Each call runs on its own ModelSpec objects and its own     *)
(* FileLock object; the target directories and the lock file are shared.   *)
(***************************************************************************)
Calls == {1, 2}
NO_HOLDER == 0

\* build_model_specs: the specs in the order of the returned dict
ModelNames == <<"clip", "caption", "llm">>

FetchModes == {"never", "download", "force", "auto"}
AssetStates == {"absent", "incomplete", "complete"}

ModelsReturned == [kind |-> "returned", code |-> ""]
ModelsRaised(code) == [kind |-> "raised", code |-> code]
ModelEvent(call, op, model, ok) == [call |-> call, op |-> op, model |-> model, ok |-> ok]

\* status.missing of check_assets(spec): some required file is not there
check_assets(assets) == assets # "complete"

\* A plausible slip: the lock is taken without waiting for its holder.
MutLockNotWaitedFor(lock) == TRUE

\* FileLock.acquire returns once no other FileLock object holds the file
LockIsFree(lock) == lock = NO_HOLDER

\* leaving the with block, by its end or by a raise
Released(p) == IF mm_lock = p THEN NO_HOLDER ELSE mm_lock

InitModels ==
    /\ mm_args \in [Calls -> [mode : FetchModes, offline : BOOLEAN]]
    /\ mm_assets \in [1..Len(ModelNames) -> AssetStates]
    /\ mm_lock = NO_HOLDER
    /\ mm_pc = [p \in Calls |-> "start"]
    /\ mm_spec = [p \in Calls |-> 0]
    /\ mm_missing = [p \in Calls |-> FALSE]
    /\ mm_events = <<>>
    /\ mm_outcome = [p \in Calls |-> None]
    /\ mm_manifest = FALSE

ModelsRaise(p, code) ==
    /\ mm_pc' = [mm_pc EXCEPT ![p] = "done"]
    /\ mm_outcome' = [mm_outcome EXCEPT ![p] = Some(ModelsRaised(code))]

\* ensure_models up to the with statement: the checks of mode and offline,
\* check_device_available (the GPU may be missing) and build_model_specs,
\* which creates the CLIP directory
EnsureModelsEnter(p) ==
    /\ mm_pc[p] = "start"
    /\ IF mm_args[p].mode \notin {"never", "download", "force"}
       THEN ModelsRaise(p, "INVALID_INPUT") /\ UNCHANGED mm_assets
       ELSE IF mm_args[p].offline /\ mm_args[p].mode \in {"download", "force"}
       THEN ModelsRaise(p, "MODEL_NOT_AVAILABLE") /\ UNCHANGED mm_assets
       ELSE \/ ModelsRaise(p, "DEVICE_NOT_AVAILABLE") /\ UNCHANGED mm_assets
            \/ /\ mm_assets' = [mm_assets EXCEPT ![1] =
                                   IF @ = "absent" THEN "incomplete" ELSE @]
               /\ mm_pc' = [mm_pc EXCEPT ![p] = "lock"]
               /\ UNCHANGED mm_outcome
    /\ UNCHANGED <<mm_args, mm_lock, mm_spec, mm_missing, mm_events, mm_manifest>>

\* with _model_lock(model_dir / ".lock"): entered
ModelLockAcquire(p) ==
    /\ mm_pc[p] = "lock"
    /\ LockIsFree(mm_lock)
    /\ mm_lock' = p
    /\ mm_pc' = [mm_pc EXCEPT ![p] = "check"]
    /\ mm_spec' = [mm_spec EXCEPT ![p] = 1]
    /\ mm_events' = Append(mm_events, ModelEvent(p, "acquire", 0, TRUE))
    /\ UNCHANGED <<mm_args, mm_assets, mm_missing, mm_outcome, mm_manifest>>

\* the head of the loop body: status = check_assets(spec) and the branches
\* up to the removal; past the last spec the with block ends
CheckAssets(p) ==
    /\ mm_pc[p] = "check"
    /\ IF mm_spec[p] > Len(ModelNames)
       THEN /\ mm_lock' = Released(p)
            /\ mm_pc' = [mm_pc EXCEPT ![p] = "manifest"]
            /\ UNCHANGED <<mm_spec, mm_missing, mm_outcome>>
       ELSE LET missing == check_assets(mm_assets[mm_spec[p]])
            IN  /\ mm_missing' = [mm_missing EXCEPT ![p] = missing]
                /\ IF ~missing /\ mm_args[p].mode # "force"
                   THEN /\ mm_spec' = [mm_spec EXCEPT ![p] = @ + 1]
                        /\ UNCHANGED <<mm_lock, mm_pc, mm_outcome>>
                   ELSE IF mm_args[p].offline \/ mm_args[p].mode \notin {"download", "force"}
                   THEN /\ ModelsRaise(p, "MODEL_NOT_AVAILABLE")
                        /\ mm_lock' = Released(p)
                        /\ UNCHANGED mm_spec
                   ELSE /\ mm_pc' = [mm_pc EXCEPT ![p] = "remove"]
                        /\ UNCHANGED <<mm_lock, mm_spec, mm_outcome>>
    /\ UNCHANGED <<mm_args, mm_assets, mm_events, mm_manifest>>

\* if spec.target_dir.exists(): shutil.rmtree on force or on missing files
RemoveTargetDir(p) ==
    /\ mm_pc[p] = "remove"
    /\ IF mm_assets[mm_spec[p]] # "absent"
          /\ (mm_args[p].mode = "force" \/ mm_missing[p])
       THEN /\ mm_assets' = [mm_assets EXCEPT ![mm_spec[p]] = "absent"]
            /\ mm_events' = Append(mm_events, ModelEvent(p, "remove", mm_spec[p], TRUE))
       ELSE UNCHANGED <<mm_assets, mm_events>>
    /\ mm_pc' = [mm_pc EXCEPT ![p] = "convert"]
    /\ UNCHANGED <<mm_args, mm_lock, mm_spec, mm_missing, mm_outcome, mm_manifest>>

\* _run_conversion: the directory is created; the download or the converter
\* writes all files, or returns short of some, or fails and raises
RunConversion(p) ==
    /\ mm_pc[p] = "convert"
    /\ \/ /\ mm_assets' = [mm_assets EXCEPT ![mm_spec[p]] = "complete"]
          /\ mm_events' = Append(mm_events, ModelEvent(p, "convert", mm_spec[p], TRUE))
          /\ mm_pc' = [mm_pc EXCEPT ![p] = "recheck"]
          /\ UNCHANGED <<mm_lock, mm_outcome>>
       \/ /\ mm_assets' = [mm_assets EXCEPT ![mm_spec[p]] = "incomplete"]
          /\ mm_events' = Append(mm_events, ModelEvent(p, "convert", mm_spec[p], FALSE))
          /\ \/ mm_pc' = [mm_pc EXCEPT ![p] = "recheck"] /\ UNCHANGED <<mm_lock, mm_outcome>>
             \/ ModelsRaise(p, "MODEL_NOT_AVAILABLE") /\ mm_lock' = Released(p)
    /\ UNCHANGED <<mm_args, mm_spec, mm_missing, mm_manifest>>

\* status = check_assets(spec) after the conversion
RecheckAssets(p) ==
    /\ mm_pc[p] = "recheck"
    /\ LET missing == check_assets(mm_assets[mm_spec[p]])
       IN  /\ mm_missing' = [mm_missing EXCEPT ![p] = missing]
           /\ IF missing
              THEN /\ ModelsRaise(p, "MODEL_NOT_AVAILABLE")
                   /\ mm_lock' = Released(p)
                   /\ UNCHANGED mm_spec
              ELSE /\ mm_spec' = [mm_spec EXCEPT ![p] = @ + 1]
                   /\ mm_pc' = [mm_pc EXCEPT ![p] = "check"]
                   /\ UNCHANGED <<mm_lock, mm_outcome>>
    /\ UNCHANGED <<mm_args, mm_assets, mm_events, mm_manifest>>

\* after the with block: _write_manifest in download mode, then return
WriteManifest(p) ==
    /\ mm_pc[p] = "manifest"
    /\ mm_manifest' = (mm_manifest \/ (~mm_args[p].offline /\ mm_args[p].mode = "download"))
    /\ mm_pc' = [mm_pc EXCEPT ![p] = "done"]
    /\ mm_outcome' = [mm_outcome EXCEPT ![p] = Some(ModelsReturned)]
    /\ UNCHANGED <<mm_args, mm_assets, mm_lock, mm_spec, mm_missing, mm_events>>

NextModels ==
    \/ \E p \in Calls : EnsureModelsEnter(p)
          /\ UNCHANGED <<tagVars, valVars, parseVars, genVars, pipeVars, capVars, devVars,
                          normVars, cpVars, tsVars>>
    \/ \E p \in Calls : ModelLockAcquire(p)
          /\ UNCHANGED <<tagVars, valVars, parseVars, genVars, pipeVars, capVars, devVars,
                          normVars, cpVars, tsVars>>
    \/ \E p \in Calls : CheckAssets(p)
          /\ UNCHANGED <<tagVars, valVars, parseVars, genVars, pipeVars, capVars, devVars,
                          normVars, cpVars, tsVars>>
    \/ \E p \in Calls : RemoveTargetDir(p)
          /\ UNCHANGED <<tagVars, valVars, parseVars, genVars, pipeVars, capVars, devVars,
                          normVars, cpVars, tsVars>>
    \/ \E p \in Calls : RunConversion(p)
          /\ UNCHANGED <<tagVars, valVars, parseVars, genVars, pipeVars, capVars, devVars,
                          normVars, cpVars, tsVars>>
    \/ \E p \in Calls : RecheckAssets(p)
          /\ UNCHANGED <<tagVars, valVars, parseVars, genVars, pipeVars, capVars, devVars,
                          normVars, cpVars, tsVars>>
    \/ \E p \in Calls : WriteManifest(p)
          /\ UNCHANGED <<tagVars, valVars, parseVars, genVars, pipeVars, capVars, devVars,
                          normVars, cpVars, tsVars>>

InitSpecModels ==
    /\ InitModels /\ InitTags /\ InitValIdle /\ InitParseIdle /\ InitGenIdle
    /\ InitPipeIdle /\ InitCapIdle /\ InitDevIdle /\ InitNormIdle /\ InitCpIdle
    /\ InitTsIdle

SpecModels == InitSpecModels /\ [][NextModels]_vars

(***************************************************************************)
(* Properties of the tag consensus                                         *)
(***************************************************************************)
\* the normalized, non-empty tag values of image k
NormalizedValueSet(k) ==
    {normalize_tag_value(tags_per_image[k][j].value) : j \in 1..Len(tags_per_image[k])}
        \ {<<>>}

SharedValues ==
    {v \in NormalizedValueSet(1) :
        \A k \in 1..Len(tags_per_image) : v \in NormalizedValueSet(k)}

\* where a normalized value first appears in the first image's list
FirstPosInFirstImage(v) ==
    CHOOSE j \in 1..Len(tags_per_image[1]) :
        /\ normalize_tag_value(tags_per_image[1][j].value) = v
        /\ \A i \in 1..(j - 1) : normalize_tag_value(tags_per_image[1][i].value) # v

\* the mean of the present scores of a list of tags, <<0, 1>> when there is none
MeanOfScores(tags) ==
    LET idx == {j \in 1..Len(tags) : tags[j].score # None}
        RECURSIVE Total(_)
        Total(S) == IF S = {} THEN 0
                    ELSE LET j == CHOOSE j \in S : TRUE
                         IN  tags[j].score[1] + Total(S \ {j})
    IN  IF idx = {} THEN <<0, 1>> ELSE <<Total(idx), Cardinality(idx)>>

\* C1: when the images' normalized tag-value sets share a value, the intersection
\* is exactly the shared values, in the order of their first appearance in the
\* first image, the strategy is intersection_all and there is no fallback.
C1_IntersectionExact ==
    (merged # None /\ tags_per_image # <<>> /\ SharedValues # {}) =>
        LET r == merged[1]
        IN  /\ Range(r.intersection) = SharedValues
            /\ Len(r.intersection) = Cardinality(SharedValues)
            /\ \A i, j \in 1..Len(r.intersection) :
                  i < j => FirstPosInFirstImage(r.intersection[i])
                              < FirstPosInFirstImage(r.intersection[j])
            /\ r.strategy = "intersection_all"
            /\ r.fallback = None

\* two images that agree on one value, which the first spells differently, and
\* differ on another
C1_Witness ==
    /\ merged # None
    /\ Len(tags_per_image) = 2
    /\ Cardinality(SharedValues) = 1
    /\ NormalizedValueSet(1) # NormalizedValueSet(2)
    /\ \E j \in 1..Len(tags_per_image[1]) :
          /\ normalize_tag_value(tags_per_image[1][j].value) \in SharedValues
          /\ tags_per_image[1][j].value \notin SharedValues
    /\ merged[1].intersection # <<>>

\* C2: when the images' normalized tag-value sets share no value, merged_tags is
\* the deduplicated list, cut to max_tags, of an image whose mean score is the
\* highest, the intersection is empty and the fallback names that image, 1-based.
C2_FallbackHighestMean ==
    (merged # None /\ tags_per_image # <<>> /\ SharedValues = {}) =>
        LET r == merged[1]
        IN  /\ r.intersection = <<>>
            /\ \E k \in 1..Len(tags_per_image) :
                  LET own == normalize_scored_tags(tags_per_image[k])
                  IN  /\ r.fallback = <<"highest_avg_score_image_", k>>
                      /\ \A j \in 1..Len(tags_per_image) :
                            ~MeanGreater(
                                MeanOfScores(normalize_scored_tags(tags_per_image[j])),
                                MeanOfScores(own))
                      /\ r.merged_tags = SubSeq(own, 1, Min(max_tags, Len(own)))

\* two images with tags and no common value, the second with the strictly
\* higher mean and more tags than max_tags lets through
C2_Witness ==
    /\ merged # None
    /\ Len(tags_per_image) = 2
    /\ SharedValues = {}
    /\ NormalizedValueSet(1) # {}
    /\ merged[1].fallback = <<"highest_avg_score_image_", 2>>
    /\ MeanGreater(MeanOfScores(normalize_scored_tags(tags_per_image[2])),
                   MeanOfScores(normalize_scored_tags(tags_per_image[1])))
    /\ Len(merged[1].merged_tags) < Len(normalize_scored_tags(tags_per_image[2]))

(***************************************************************************)
(* Properties of the schema validation                                     *)
(***************************************************************************)
\* the number of segments between full stops that hold a non-blank character:
\* the positions of the first such character of a segment
SentenceStarts(d) ==
    {i \in 1..Len(d) :
        /\ d[i] \notin {".", " "}
        /\ \A j \in 1..(i - 1) :
              (\A k \in j..(i - 1) : d[k] # ".") => d[j] = " "}

C10_DescriptionBoundary ==
    (/\ v_result # ""
     /\ v_title # None /\ v_description # None
     /\ Len(v_title[1]) >= 55 /\ Len(v_title[1]) <= 90) =>
        (v_result = "ok" <=> Cardinality(SentenceStarts(v_description[1])) \in 2..4)

\* a description of five sentences rejected although the title is valid
C10_Witness ==
    /\ v_result = "Description must be 2-4 sentences."
    /\ v_title # None /\ Len(v_title[1]) = 55
    /\ v_description # None
    /\ Cardinality(SentenceStarts(v_description[1])) = 5

(***************************************************************************)
(* Claims on the structured-output parser                                  *)
(***************************************************************************)
\* the raw text is the embedded object alone, without noise around it
NoNoise ==
    embedded # None /\ raw_text = RenderObject(embedded[1][1], embedded[1][2])

\* C7: extraction round trip.  For every valid object with the string keys
\* title and description, embedded anywhere between a prefix and a suffix of
\* noise (quotes and braces included), _extract_first_json_object followed by
\* the decoding recovers the same title and the same description.
C7_ExtractionRoundTrip ==
    (embedded # None /\ pj_result # None) =>
        /\ pj_result[1].title = Some(embedded[1][1])
        /\ pj_result[1].description = Some(embedded[1][2])

\* C9: a title shorter than 55 characters is accepted.  For an object whose
\* title is short and whose description has two sentences, parse_llm_json and
\* parse_llm_output (allow_debug_failure false) raise no error and return the
\* title unchanged.
C9_ShortTitleAccepted ==
    (NoNoise /\ Len(embedded[1][1]) < TITLE_MIN_CHARS
             /\ SentenceCount(embedded[1][2]) = 2) =>
        /\ pj_result # None =>
              /\ pj_result[1].error = None
              /\ pj_result[1].title = Some(embedded[1][1])
        /\ (po_result # None /\ ~po_result[1].allow_debug_failure) =>
              /\ po_result[1].kind = "return"
              /\ po_result[1].title = embedded[1][1]

(***************************************************************************)
(* Claims on LlmCopywriter.generate                                        *)
(***************************************************************************)
\* C3: timeout isolation.  With a positive LLM_TIMEOUT_SECONDS, when the
\* generation call has not finished at the expiry of the timeout, LLM_TIMEOUT
\* is reported to the caller at expiry, without waiting for the worker's call
\* to finish: after the expiry the caller is never held while the worker runs.
C3_TimeoutIsolation ==
    ~(g_timeout > 0 /\ g_pc = "shutdown_wait" /\ g_worker = "running")

\* C4: every first output that fails the extraction, the decoding or the
\* validation makes generate() start the model exactly once more, with the
\* original prompt plus the corrective instruction, whether
\* allow_debug_failure is off or on.
C4_RetryOnInvalidFirst ==
    (g_pc = "done" /\ Len(g_parsed) >= 1 /\ g_parsed[1] \in InvalidRaws) =>
        /\ Len(g_calls) = 2
        /\ g_calls[2] = Corrective(g_calls[1])

\* C5: one generate() call starts the model at most twice: after a second
\* invalid output there is no third attempt, and with allow_debug_failure off
\* generate() then raises LLM_OUTPUT_INVALID.
C5_AtMostTwoAttempts ==
    /\ Len(g_calls) <= 2
    /\ (g_pc = "done" /\ Len(g_parsed) = 2 /\ g_parsed[2] \in InvalidRaws /\ ~g_allow) =>
          /\ g_outcome # None
          /\ g_outcome[1].kind = "raise"
          /\ g_outcome[1].code = "LLM_OUTPUT_INVALID"

\* generate() has ended after two invalid outputs with allow_debug_failure off
C5_Witness ==
    /\ g_pc = "done" /\ ~g_allow
    /\ Len(g_calls) = 2 /\ Len(g_parsed) = 2
    /\ g_parsed[1] \in InvalidRaws /\ g_parsed[2] \in InvalidRaws
    /\ g_calls[2] = Corrective(BasePrompt)
    /\ g_outcome # None /\ g_outcome[1].code = "LLM_OUTPUT_INVALID"

(***************************************************************************)
(* Claims on run_pipeline                                                  *)
(***************************************************************************)
\* C6: run_pipeline turns LLM_OUTPUT_INVALID or LLM_TIMEOUT into a successful
\* response with empty title and description only in runs whose request asked
\* for diagnostics (payload.debug true); without that request the two errors
\* leave run_pipeline as failures.
C6_DowngradeOnlyOnRequest ==
    (p_outcome # None /\ p_outcome[1].kind = "success"
        /\ p_outcome[1].title = <<>> /\ p_outcome[1].description = <<>>)
    => p_payload_debug

ExpectedTrace(n) ==
    <<<<"load_images", 0>>, <<"tagger", 0>>>>
        \o [i \in 1..n |-> <<"predict", i - 1>>]
        \o <<<<"merge", 0>>, <<"captioner", 0>>, <<"captions", 0>>,
             <<"llm_init", 0>>, <<"llm_generate", 0>>>>

IsPrefix(s, t) == Len(s) <= Len(t) /\ SubSeq(t, 1, Len(s)) = s

\* C12: every run goes through its stages in the fixed order image loading, tag
\* scoring (one tagger call per image, in image order), tag reconciliation,
\* caption generation, copy generation; no stage is entered twice; a stage that
\* fails stops the run, which ends in failure without entering a later stage.
C12_StageOrder ==
    /\ p_images = 0 => Len(p_trace) <= 1
    /\ p_images > 0 => IsPrefix(p_trace, ExpectedTrace(p_images))
    /\ p_outcome # None => p_pc = "done"
    /\ (p_outcome # None /\ p_outcome[1].kind = "success") =>
           p_trace = ExpectedTrace(p_images)
    /\ (p_pc = "done" /\ p_trace # <<>> /\ p_trace # ExpectedTrace(p_images)) =>
           p_outcome[1].kind = "failure"

\* the captioner fails on a run over two images: both predict calls and the
\* reconciliation have run, the copy generation has not
C12_Witness ==
    /\ p_pc = "done"
    /\ p_images = 2
    /\ p_outcome[1].kind = "failure"
    /\ p_trace = SubSeq(ExpectedTrace(2), 1, 7)

\* C13: whenever run_pipeline fails at a stage and the request asked for
\* diagnostics (payload.debug), the error carries the diagnostic record
\* accumulated so far; when the request did not ask, the error carries none.
C13_DiagnosticsOnFailure ==
    (p_outcome # None /\ p_outcome[1].kind = "failure" /\ p_trace # <<>>) =>
        IF p_payload_debug
        THEN p_debug_info # None /\ p_outcome[1].debug = p_debug_info
        ELSE p_outcome[1].debug = None

(***************************************************************************)
(* Properties of the device resolver                                       *)
(***************************************************************************)
\* the requested name: surrounding whitespace removed, then the text up to and
\* including a leading "openvino:" (in any case) removed
RequestedName ==
    LET t == Strip(d_device)
    IN  IF Len(t) >= 9 /\ Lower(SubSeq(t, 1, 9)) = OPENVINO_PREFIX
        THEN SubSeq(t, 10, Len(t)) ELSE t

IsComposite(name) ==
    \/ Contains(Upper(name), <<"A", "U", "T", "O">>)
    \/ Contains(Upper(name), <<"M", "U", "L", "T", "I">>)
    \/ \E i \in 1..Len(name) : name[i] = ","

\* C14: resolve_device never substitutes a device.  It returns exactly the
\* prefix-stripped, upper-cased requested name, which is then one of the
\* available devices, or it fails: a name holding AUTO, MULTI or a comma fails
\* with INVALID_INPUT whether or not it is available, and any other name that
\* is not available fails with DEVICE_NOT_AVAILABLE.
C14_NoSubstitution ==
    d_result # None =>
        /\ d_result[1].kind = "returned" =>
              /\ d_result[1].value = Upper(RequestedName)
              /\ d_result[1].value \in d_available
        /\ IsComposite(RequestedName) =>
              d_result[1] = DeviceRaised("INVALID_INPUT")
        /\ (RequestedName # <<>> /\ ~IsComposite(RequestedName)
                /\ Upper(RequestedName) \notin d_available) =>
              d_result[1] = DeviceRaised("DEVICE_NOT_AVAILABLE")

\* AUTO is requested and is among the available devices, and the call fails
C14_Witness ==
    /\ d_result # None
    /\ Upper(RequestedName) = <<"A", "U", "T", "O">>
    /\ Upper(RequestedName) \in d_available
    /\ d_result[1] = DeviceRaised("INVALID_INPUT")

(***************************************************************************)
(* Properties of the parser on texts without an object                     *)
(***************************************************************************)
\* no opening brace of the text is followed by a closing brace
NoBraceRegion(text) ==
    ~\E i \in 1..Len(text), j \in 1..Len(text) :
        i < j /\ text[i] = "{" /\ text[j] = "}"

\* C15: on a raw text without a top-level {...} region parse_llm_json raises;
\* parse_llm_output raises LLM_OUTPUT_INVALID when allow_debug_failure is false,
\* and when it is true returns ('', '') and records raw_text_chars and the
\* json_parse_error 'No JSON object found.' in the debug record.
C15_NoObjectFound ==
    NoBraceRegion(raw_text) =>
        /\ pj_result # None => pj_result[1].error = Some("No JSON object found.")
        /\ (po_result # None /\ ~po_result[1].allow_debug_failure) =>
              /\ po_result[1].kind = "raise"
              /\ po_result[1].code = "LLM_OUTPUT_INVALID"
        /\ (po_result # None /\ po_result[1].allow_debug_failure) =>
              /\ po_result[1].kind = "return"
              /\ po_result[1].title = <<>> /\ po_result[1].description = <<>>
              /\ po_debug # None =>
                    /\ po_result[1].debug # None
                    /\ po_result[1].debug[1].raw_text_chars = Len(raw_text)
                    /\ po_result[1].debug[1].json_parse_error
                           = Some("No JSON object found.")

\* 'not-json' parsed with a debug record and allow_debug_failure
C15_Witness ==
    /\ raw_text = NOT_JSON
    /\ po_result # None
    /\ po_result[1].allow_debug_failure
    /\ po_debug # None
    /\ po_result[1].kind = "return"

\* C16: when the raw text holds a fenced code block marked as JSON, the
\* candidate is taken from inside the fence, also when another {...} region
\* stands earlier in the text, outside the fence.
C16_FencedBlockPreferred ==
    (fenced # None /\ pj_result # None) =>
        /\ pj_result[1].candidate = Some(RenderObject(fenced[1][1], fenced[1][2]))
        /\ pj_result[1].title = Some(fenced[1][1])

(***************************************************************************)
(* Properties of the normalization                                         *)
(***************************************************************************)
\* C17: normalization is idempotent: normalize_tag_value of its own result is
\* that result, and normalize_tags of its own output is that output.
C17_Idempotent ==
    /\ Len(n_value_runs) = 2 => n_value_runs[2] = n_value_runs[1]
    /\ Len(n_tags_runs) = 2 => n_tags_runs[2] = n_tags_runs[1]

\* both functions applied twice, each on an input the first application changed
C17_Witness ==
    /\ Len(n_value_runs) = 2
    /\ n_value_runs[1] # <<>>
    /\ n_value_runs[1] # n_value[1]
    /\ Len(n_tags_runs) = 2
    /\ Len(n_tags_runs[1]) >= 2
    /\ Len(n_tags_runs[1]) < Len(n_tags)

\* the position of the first string of tags whose normalized value is value
FirstOccurrence(tags, value) ==
    CHOOSE i \in 1..Len(tags) :
        /\ normalize_tag_value(tags[i]) = value
        /\ \A j \in 1..(i - 1) : normalize_tag_value(tags[j]) # value

\* value is trimmed, lower-cased and whitespace-collapsed: no whitespace at
\* either end, single spaces as the only whitespace, no upper-case letter
IsNormalized(value) ==
    /\ value # <<>> => ~IsSpace(value[1]) /\ ~IsSpace(value[Len(value)])
    /\ \A i \in 1..Len(value) :
          /\ IsSpace(value[i]) => value[i] = " " /\ ~IsSpace(value[i + 1])
          /\ value[i] \notin DOMAIN LOWER_OF

\* C18: normalize_tags returns the normalized values of its input without the
\* empty ones, each once, in the order of each value's first occurrence.
C18_NormalizeTags ==
    n_tags_runs # <<>> =>
        LET out == n_tags_runs[1]
        IN  /\ Range(out) = {normalize_tag_value(t) : t \in Range(n_tags)} \ {<<>>}
            /\ \A i \in 1..Len(out) : IsNormalized(out[i])
            /\ \A i, j \in 1..Len(out) : i # j => out[i] # out[j]
            /\ \A i, j \in 1..Len(out) :
                  i < j => FirstOccurrence(n_tags, out[i]) < FirstOccurrence(n_tags, out[j])

\* three strings: the first and the third spell the same value differently,
\* the second is another value
C18_Witness ==
    /\ n_tags_runs # <<>>
    /\ Len(n_tags) = 3
    /\ n_tags[1] # n_tags[3]
    /\ normalize_tag_value(n_tags[1]) = normalize_tag_value(n_tags[3])
    /\ Len(n_tags_runs[1]) = 2

(***************************************************************************)
(* Properties of the caption texts                                         *)
(***************************************************************************)
\* the text of the caption that stands first in the list among those of the
\* image index, the empty text when there is none
FirstTextOf(captions, index) ==
    LET positions == {k \in 1..Len(captions) : captions[k].image_index = index}
    IN  IF positions = {} THEN <<>>
        ELSE captions[CHOOSE k \in positions : \A m \in positions : k <= m].text

\* the captions of each image index stand in the same order in both lists
SameOrderPerIndex(captions, reordered) ==
    \A index \in CaptionIndexes :
        SelectSeq(captions, LAMBDA c : c.image_index = index)
            = SelectSeq(reordered, LAMBDA c : c.image_index = index)

\* C19: captions_per_image returns image_count texts, the i-th being the text
\* of the first caption of image index i (empty when there is none), wherever
\* the captions of the other images stand in the list; run_pipeline hands the
\* copy generator one such text per image, cleaned, in image-index order.
C19_CaptionsPerImage ==
    /\ cp_results # None =>
          /\ Len(cp_results[1]) = cp_image_count
          /\ \A i \in 1..cp_image_count :
                cp_results[1][i] = FirstTextOf(cp_captions, i - 1)
    /\ (cp_results # None /\ cp_results_reordered # None
           /\ SameOrderPerIndex(cp_captions, cp_reordered)) =>
          cp_results_reordered = cp_results
    /\ cp_texts # None =>
          /\ Len(cp_texts[1]) = cp_image_count
          /\ \A i \in 1..cp_image_count :
                cp_texts[1][i] = clean_caption_text(FirstTextOf(cp_captions, i - 1),
                                                    CAPTION_MAX_CHARS,
                                                    CAPTION_DEDUP_REPETITION_THRESHOLD)

\* the case of the test: the caption of image 1 listed before the caption of
\* image 0, two images; the same captions also taken in the other order
C19_Witness ==
    /\ cp_image_count = 2
    /\ Len(cp_captions) = 2
    /\ cp_captions[1].image_index = 1 /\ cp_captions[2].image_index = 0
    /\ cp_captions[1].text # cp_captions[2].text
    /\ cp_results = Some(<<cp_captions[2].text, cp_captions[1].text>>)
    /\ cp_results_reordered # None /\ cp_reordered # cp_captions
    /\ cp_texts # None

(***************************************************************************)
(* Properties of the tags of a run                                         *)
(***************************************************************************)
\* the normalized, non-empty tag values tagger.predict returned for image k
PipeValueSet(k) ==
    {normalize_tag_value(p_tags_per_image[k][j].value) :
        j \in 1..Len(p_tags_per_image[k])} \ {<<>>}

\* the values every image of the run has
PipeSharedValues ==
    {v \in PipeValueSet(1) : \A k \in 1..Len(p_tags_per_image) : v \in PipeValueSet(k)}

\* C20: in every successful run the tag list handed to the copy generator
\* equals, value for value and in order, the values of the response's tags,
\* and both are the consensus of merge_tags_for_images over all images.
C20_SameTagsEverywhere ==
    (p_outcome # None /\ p_outcome[1].kind = "success") =>
        LET tags == p_outcome[1].tags
            values == [j \in 1..Len(tags) |-> tags[j].value]
        IN  /\ p_llm_call # None
            /\ p_llm_call[1].tags = values
            /\ Len(p_tags_per_image) = p_images
            /\ tags = merge_tags_for_images(p_tags_per_image, p_max_tags).merged_tags
            /\ PipeSharedValues # {} =>
                  /\ Range(values) \subseteq PipeSharedValues
                  /\ Len(values) = Min(p_max_tags, Cardinality(PipeSharedValues))

\* a successful run over two images that share one value only, the first
\* image having a second one: that value is the response's tag and the tag
\* handed to the copy generator
C20_Witness ==
    /\ p_outcome # None /\ p_outcome[1].kind = "success"
    /\ p_images = 2
    /\ Len(p_tags_per_image[1]) = 2
    /\ Cardinality(PipeSharedValues) = 1
    /\ p_max_tags >= 2
    /\ Len(p_outcome[1].tags) = 1
    /\ p_llm_call[1].tags = <<p_outcome[1].tags[1].value>>
    /\ p_outcome[1].tags[1].value \in PipeSharedValues

(***************************************************************************)
(* Properties of the scores and of the truncation of the consensus         *)
(***************************************************************************)
\* the greatest number of a non-empty set of numbers
Greatest(S) == CHOOSE m \in S : \A x \in S : m >= x

\* the scores (a missing score counting as 0.0, as in `tag.score or 0.0`) that
\* the deduplicated lists of the images hold for a value
ScoresInImages(value) ==
    UNION {{ScoreOrZero(t_normalized[1][k][j].score) :
               j \in {j \in 1..Len(t_normalized[1][k]) :
                        t_normalized[1][k][j].value = value}} :
           k \in 1..Len(t_normalized[1])}

\* C21: when the intersection is non-empty, the score of every tag of
\* merged_tags is the greatest score the tag has in any image's deduplicated
\* list, negative scores included.
C21_MaxScoreKept ==
    (merged # None /\ merged[1].intersection # <<>>) =>
        \A j \in 1..Len(merged[1].merged_tags) :
            merged[1].merged_tags[j].score
                = Some(Greatest(ScoresInImages(merged[1].merged_tags[j].value)))

\* the scores of the tags of image k whose normalized value is value
ScoresOfValue(k, value) ==
    {ScoreOrZero(tags_per_image[k][j].score) :
        j \in {j \in 1..Len(tags_per_image[k]) :
                 normalize_tag_value(tags_per_image[k][j].value) = value}}

\* where a normalized value first appears in the list of image k
FirstPosInImage(k, value) ==
    CHOOSE j \in 1..Len(tags_per_image[k]) :
        /\ normalize_tag_value(tags_per_image[k][j].value) = value
        /\ \A i \in 1..(j - 1) : normalize_tag_value(tags_per_image[k][i].value) # value

\* C22: normalize_scored_tags returns one tag per distinct non-empty
\* normalized value of the image's list, in the order of first occurrence,
\* with the highest score among the input tags of that value.
C22_DedupKeepsHighest ==
    t_normalized # None =>
        \A k \in 1..Len(tags_per_image) :
            LET out == t_normalized[1][k]
            IN  /\ {out[j].value : j \in 1..Len(out)} = NormalizedValueSet(k)
                /\ Len(out) = Cardinality(NormalizedValueSet(k))
                /\ \A i, j \in 1..Len(out) :
                      i < j => FirstPosInImage(k, out[i].value)
                                  < FirstPosInImage(k, out[j].value)
                /\ \A j \in 1..Len(out) :
                      /\ ScoreOrZero(out[j].score) = Greatest(ScoresOfValue(k, out[j].value))
                      /\ \E t \in Range(tags_per_image[k]) :
                            /\ normalize_tag_value(t.value) = out[j].value
                            /\ t.score = out[j].score

\* an image whose list spells a value twice, the lower score first
C22_Witness ==
    /\ t_normalized # None
    /\ Len(tags_per_image) >= 1
    /\ Len(tags_per_image[1]) = 3
    /\ Len(t_normalized[1][1]) = 2
    /\ tags_per_image[1][1].score = Some(-1)
    /\ t_normalized[1][1][1].score = Some(2)

\* s is the list of the first elements of full
IsLeading(s, full) == Len(s) <= Len(full) /\ s = SubSeq(full, 1, Len(s))

ValuesOf(tags) == [j \in 1..Len(tags) |-> tags[j].value]

\* the untruncated list: the intersection, or on fallback the deduplicated list
\* of the image the fallback names
UntruncatedTags ==
    IF merged[1].fallback = None THEN merged[1].intersection
    ELSE ValuesOf(t_normalized[1][merged[1].fallback[2]])

\* C23: for every max_tags >= 0, merged_tags and tags_for_llm hold at most
\* max_tags elements and are the leading elements, in unchanged order, of the
\* untruncated consensus or fallback list.
C23_TruncatedPrefix ==
    (merged # None /\ tags_per_image # <<>>) =>
        /\ Len(merged[1].merged_tags) = Min(max_tags, Len(UntruncatedTags))
        /\ Len(merged[1].tags_for_llm) = Min(max_tags, Len(UntruncatedTags))
        /\ IsLeading(ValuesOf(merged[1].merged_tags), UntruncatedTags)
        /\ IsLeading(merged[1].tags_for_llm, UntruncatedTags)
        /\ merged[1].fallback # None =>
              IsLeading(merged[1].merged_tags,
                        t_normalized[1][merged[1].fallback[2]])

\* two values shared by two images and max_tags = 1: one tag is cut off
C23_Witness ==
    /\ merged # None
    /\ max_tags = 1
    /\ Len(merged[1].intersection) = 2
    /\ Len(merged[1].merged_tags) = 1
    /\ merged[1].tags_for_llm = <<merged[1].intersection[1]>>

(***************************************************************************)
(* Properties of the tag sets                                              *)
(***************************************************************************)
\* the normalized, non-empty tag values of image k
TsValueSet(k) ==
    {normalize_tag_value(ts_tags_per_image[k][j].value) :
        j \in 1..Len(ts_tags_per_image[k])} \ {<<>>}

\* the images that contain the tag
TsImagesWith(tag) == {k \in 1..Len(ts_tags_per_image) : tag \in TsValueSet(k)}

\* number of images containing the tag divided by the image count
TsFrequency(tag) == <<Cardinality(TsImagesWith(tag)), Len(ts_tags_per_image)>>

\* the score the tag has in image k: the highest of its spellings' scores
TsScoreIn(tag, k) ==
    LET scores == {ScoreOrZero(ts_tags_per_image[k][j].score) :
                      j \in {j \in 1..Len(ts_tags_per_image[k]) :
                               normalize_tag_value(ts_tags_per_image[k][j].value) = tag}}
    IN  CHOOSE m \in scores : \A x \in scores : m >= x

RECURSIVE TsScoreSum(_, _)
TsScoreSum(tag, images) ==
    IF images = {} THEN 0
    ELSE LET k == CHOOSE k \in images : TRUE
         IN  TsScoreIn(tag, k) + TsScoreSum(tag, images \ {k})

\* the mean of the tag's scores over the images containing it
TsMeanScore(tag) == <<TsScoreSum(tag, TsImagesWith(tag)), Cardinality(TsImagesWith(tag))>>

\* tag x stands before tag y: frequency descending, then mean score
\* descending, then tag ascending
TsStandsBefore(x, y) ==
    \/ QuotLess(TsFrequency(y), TsFrequency(x))
    \/ /\ QuotEq(TsFrequency(x), TsFrequency(y))
       /\ \/ QuotLess(TsMeanScore(y), TsMeanScore(x))
          \/ QuotEq(TsMeanScore(x), TsMeanScore(y)) /\ StrLess(x, y, 1)

\* soft is the list of the first `most` tags of the set, in that order
IsLeadingSorted(soft, tags, most) ==
    /\ Range(soft) \subseteq tags
    /\ Len(soft) = Min(most, Cardinality(tags))
    /\ \A i, j \in 1..Len(soft) : i < j => TsStandsBefore(soft[i], soft[j])
    /\ \A tag \in tags \ Range(soft) : \A i \in 1..Len(soft) : TsStandsBefore(soft[i], tag)

\* C24: tags_soft is the first max_soft_tags elements of the tags whose
\* frequency exceeds min_shared_ratio, sorted by frequency descending, mean
\* score descending, tag ascending; a tag whose frequency equals the ratio is
\* not included.
C24_SoftTagsAboveRatio ==
    (ts_result # None /\ ts_tags_per_image # <<>>) =>
        IsLeadingSorted(ts_result[1].tags_soft,
                        {tag \in UNION {TsValueSet(k) : k \in 1..Len(ts_tags_per_image)} :
                            QuotLess(ts_min_shared_ratio, TsFrequency(tag))},
                        Max(0, ts_max_soft_tags))

\* C28: tags_strict of build_tag_sets equals the intersection field of
\* merge_tags_for_images for the same per-image tag lists, value for value
\* and in the same order.
C28_StrictEqualsIntersection ==
    (ts_result # None /\ ts_merged # None) =>
        /\ ts_result[1].tags_strict = ts_merged[1].intersection
        /\ ts_tags_per_image # <<>> =>
              Range(ts_result[1].tags_strict)
                  = {tag \in TsValueSet(1) :
                        \A k \in 1..Len(ts_tags_per_image) : tag \in TsValueSet(k)}

\* three different images of which the first two share two values and the
\* third holds only one of them
C28_Witness ==
    /\ ts_result # None /\ ts_merged # None
    /\ Len(ts_tags_per_image) = 3
    /\ Cardinality(TsValueSet(1) \cap TsValueSet(2)) = 2
    /\ ts_tags_per_image[1] # ts_tags_per_image[2]
    /\ Len(ts_result[1].tags_strict) = 1
    /\ ts_merged[1].intersection = ts_result[1].tags_strict

(***************************************************************************)
(* Properties of the caption decoding loop                                 *)
(***************************************************************************)
\* C25: every decoder invocation after the first is given input_ids of length
\* exactly 1 (the token chosen in the previous step) with attention mask [1]
\* and the cache produced by the previous step; only the first invocation is
\* made without a cache.
C25_LaterCallsUseCache ==
    c_decode_inputs # None =>
        IF c_decoder_calls = 1
        THEN c_decode_inputs[1].past_key_values = None
        ELSE /\ Len(c_decode_inputs[1].input_ids) = 1
             /\ c_decode_inputs[1].attention_mask = <<1>>
             /\ c_decode_inputs[1].past_key_values # None

\* C26: the seed token is the tokenizer's begin-of-sequence id whenever one
\* is defined (0 included), the class-start id only when no begin-of-sequence
\* id is defined, and 0 only when neither is defined.
C26_SeedIsBosWhenDefined ==
    c_input_ids # <<>> =>
        c_input_ids[1] =
            IF c_args.tokenizer.bos_token_id # None THEN c_args.tokenizer.bos_token_id[1]
            ELSE IF c_args.tokenizer.cls_token_id # None
                 THEN c_args.tokenizer.cls_token_id[1]
                 ELSE 0

(***************************************************************************)
(* Properties of concurrent model preparation                              *)
(***************************************************************************)
\* the call is inside the section that checks, removes and converts
InModelSection(p) == mm_pc[p] \in {"check", "remove", "convert", "recheck"}

\* the calls in the order in which they entered the section
EnteredCalls ==
    LET acquired == SelectSeq(mm_events, LAMBDA e : e.op = "acquire")
    IN  [i \in 1..Len(acquired) |-> acquired[i].call]

\* the call has converted the model and found its assets complete
ConvertedOk(p, model) ==
    \E i \in 1..Len(mm_events) :
        mm_events[i] = ModelEvent(p, "convert", model, TRUE)

\* the call has removed or converted the model
Touched(p, model) ==
    \E i \in 1..Len(mm_events) :
        /\ mm_events[i].call = p /\ mm_events[i].model = model
        /\ mm_events[i].op \in {"remove", "convert"}

\* C27: of two concurrent ensure_models calls on the same model directory
\* never both are inside the check/remove/convert section; in download mode,
\* when the first call's conversion of a model succeeds, the second call finds
\* the assets present and neither converts nor removes them again.
C27_OneCallAtATime ==
    /\ \A p, q \in DOMAIN mm_pc : (InModelSection(p) /\ InModelSection(q)) => p = q
    /\ Len(EnteredCalls) = 2 =>
          \A model \in 1..Len(ModelNames) :
              (/\ mm_args[EnteredCalls[1]].mode = "download"
               /\ mm_args[EnteredCalls[2]].mode = "download"
               /\ ConvertedOk(EnteredCalls[1], model))
                  => ~Touched(EnteredCalls[2], model)

\* both calls ran in download mode; the first one converted the caption model
\* while the second one waited for the lock, and the second one has returned
C27_Witness ==
    /\ Len(EnteredCalls) = 2
    /\ mm_args[1].mode = "download" /\ mm_args[2].mode = "download"
    /\ ConvertedOk(EnteredCalls[1], 2)
    /\ \E i \in 1..Len(mm_events) :
          /\ mm_events[i] = ModelEvent(EnteredCalls[2], "acquire", 0, TRUE)
          /\ \E j \in 1..(i - 1) : mm_events[j] = ModelEvent(EnteredCalls[1], "convert", 2, TRUE)
    /\ mm_outcome[EnteredCalls[2]] = Some(ModelsReturned)
    /\ mm_manifest

(***************************************************************************)
(* Properties of the timeout and of the diagnostics of the generation      *)
(***************************************************************************)
\* C29: a generation call that timed out is never retried.  From the expiry
\* of the timeout on, the generate() call starts no further model generation,
\* and when LLM_TIMEOUT reaches _generate_with_retry the call ends with
\* LLM_TIMEOUT, or with the empty pair when allow_debug_failure is on; a
\* second generation is started only after an output that was parsed and
\* found invalid.
C29_TimeoutNotRetried ==
    [][/\ g_pc = "shutdown_wait" =>
             /\ g_calls' = g_calls
             /\ g_pc' \in {"shutdown_wait", "done"}
             /\ g_pc' = "done" =>
                   g_outcome' = IF g_allow THEN Some(Returned(<<>>, <<>>, g_debug))
                                ELSE Some(Raised("LLM_TIMEOUT", g_debug))
       /\ (Len(g_calls) >= 1 /\ Len(g_calls') > Len(g_calls)) =>
             /\ Len(g_parsed) = Len(g_calls)
             /\ g_parsed[Len(g_parsed)] \in InvalidRaws
             /\ ~g_allow
      ]_vars

\* the corrective attempt has timed out and generate() has raised LLM_TIMEOUT
C29_Witness ==
    /\ g_pc = "done" /\ g_timeout > 0
    /\ Len(g_calls) = 2 /\ Len(g_parsed) = 1 /\ g_parsed[1] \in InvalidRaws
    /\ g_outcome = Some(Raised("LLM_TIMEOUT", g_debug))
    /\ g_debug # None /\ g_debug[1].llm_timeout_hit = Some(TRUE)

\* C30: whenever generate() returns a valid non-empty title and description,
\* json_parse_error and schema_error of the diagnostic record are both empty,
\* also when the accepted output came from the corrective retry after an
\* invalid first attempt.
C30_DebugDescribesAccepted ==
    (/\ g_pc = "done" /\ g_outcome # None /\ g_outcome[1].kind = "return"
     /\ g_outcome[1].title # <<>> /\ g_outcome[1].description # <<>>
     /\ g_outcome[1].debug # None) =>
        /\ g_outcome[1].debug[1].json_parse_error = None
        /\ g_outcome[1].debug[1].schema_error = None

====
